---- MODULE Spec2Model ----
(***************************************************************************)
(* Verification model of aws-s3-sns-sync.                                  *)
(*                                                                         *)
(* Part 1 models AsyncOpQueue (src/AsyncOpQueue.ts): the linked list of    *)
(* queue items, the running-task table, the dispatcher run(), the reaper,  *)
(* submit(), stop() and the completion callbacks.  Every handler runs to   *)
(* completion on the single JavaScript thread, so each is one action;      *)
(* the clock (Date.now()) may advance while the dispatcher loops.          *)
(*                                                                         *)
(* Time.  The queue only ever uses differences between a stored instant    *)
(* and Date.now(), so instants are kept relative to the current one:       *)
(* Date.now() is 0, and a tick of the clock moves every stored instant one *)
(* unit into the past.  Instants further back than PastHorizon are merged. *)
(* An optional number (number | undefined) is a sequence of length <= 1.   *)
(*                                                                         *)
(* Heap.  items holds every QueueItem ever allocated, so that an index     *)
(* identifies a submission.  An item that neither queueHead (through next) *)
(* nor queueTail reaches any more is garbage: its fields are cleared.      *)
(*                                                                         *)
(* Part 2 models one reconciliation pass (src/sync.ts) over a bucket       *)
(* listing and a local tree, the file-system tasks it submits to the queue *)
(* (src/filesystemOps.ts), and the file system itself.  A string is the    *)
(* sequence of its UTF-8 bytes.  Every call of fs.promises is one step of  *)
(* its task, except writeFile, which opens the file and then writes it.    *)
(***************************************************************************)
EXTENDS Integers, Sequences, FiniteSets, TLC

VARIABLES
  \* ---- AsyncOpQueue fields --------------------------------------------
  maxConcurrency,        \* this.maxConcurrency
  catchErrors,           \* this.catchErrors
  reaperIntervalMillis,  \* this.reaperIntervalMillis
  runningTasks,          \* this.runningTasks : key -> RunningTask | undefined
  runCount,              \* this.runCount
  items,                 \* heap of QueueItem objects, in allocation order
  queueHead,             \* this.queueHead (index into items, NoItem = undefined)
  queueTail,             \* this.queueTail
  size,                  \* this.size
  runId,                 \* this.runId
  shutdown,              \* this.shutdown
  shutdownImmediately,   \* this.shutdownImmediately
  \* ---- event loop ------------------------------------------------------
  runScheduled,          \* a setImmediate(run) callback is pending
  reapTimer,             \* due time of the pending reaper setTimeout
  stopTimer,             \* due time of the pending stop(false, timeout) setTimeout
  \* ---- observation -----------------------------------------------------
  runs,                  \* the tasks started so far, in start order, each with
                         \* the number of calls of its completion callback,
                         \* until the first call its expiration, and whether
                         \* a call came while another task held its key
  refused,               \* number of submit() calls refused so far
  \* ---- sync options, bucket and file system ---------------------------
  remote,                \* the keys of the objects in the bucket
  remove,                \* options.remove
  tmpDir,                \* options.tmpDir (None: not set)
  fsFiles,               \* the regular files: absolute path -> file
  fsDirs,                \* the directories: set of absolute paths
  syncState,             \* "off": no reconciler, "start": sync() not yet run,
                         \* "done": the pass has submitted its tasks
  \* ---- SNS ingress and the host process --------------------------------
  snsOptions,            \* ignoreMessageValidation, prefix and suffix
  requests,              \* the POST requests received so far, each with its
                         \* body, its progress, the responses given and the
                         \* calls its handling made
  fatal,                 \* an 'unhandledRejection' has run the shutdown hooks
  \* ---- run(): the services, their timers and the shutdown hooks --------
  runOptions,            \* skipInitialSync, resyncInterval, port, topicArn
                         \* and ignoreUnsubscribeOnShutdown (set or not)
  currentlySyncing,      \* currentlySyncing of sync()
  syncTimeout,           \* timeout of sync(), the resync timer: "unset",
                         \* "armed", "fired" or "cleared"
  passesRunning,         \* calls of the inner sync() that have not returned
  passesStarted,         \* calls of the inner sync() so far
  httpServer,            \* "off", "binding", "listening", "closing", "closed"
  SubscriptionArn,       \* SubscriptionArn of startSnsServer
  hasUnsubscribed,       \* hasUnsubscribed of startSnsServer
  snsCalls,              \* the commands sent to SNS so far, in order
  snsPending,            \* the commands sent to SNS and not yet answered
  shutdownHandlers,      \* the registered shutdown hooks
  exitGroups,            \* for each runHooks call, the promises of its hooks
                         \* that are still pending
  exitTimer,             \* the setTimeout of runHooks is pending
  exited,                \* "no", or what called process.exit: "hooks",
                         \* "timeout"
  stopCalls,             \* calls of the StopService that run() returns
  signalled,             \* a shutdown signal has been received
  \* ---- library calls on their own ------------------------------------
  libCall                \* the call of a library function that is checked on
                         \* its own: its arguments, its locals and its result

queueVars == <<maxConcurrency, catchErrors, reaperIntervalMillis, runningTasks, runCount,
               items, queueHead, queueTail, size, runId, shutdown,
               shutdownImmediately, runScheduled, reapTimer, stopTimer,
               runs, refused>>

syncVars == <<remote, remove, tmpDir, fsFiles, fsDirs, syncState>>

serviceVars == <<runOptions, currentlySyncing, syncTimeout, passesRunning,
                 passesStarted, httpServer, SubscriptionArn, hasUnsubscribed,
                 snsCalls, snsPending, shutdownHandlers, exitGroups,
                 exitTimer, exited, stopCalls, signalled>>

hostVars == <<snsOptions, requests, fatal, serviceVars>>

vars == <<queueVars, syncVars, hostVars, libCall>>

----------------------------------------------------------------------------
\* Bounds of the model.
MaxBusySubmits == 4      \* submit() calls accepted by the queue of SpecQueueBusy
MaxSubmits == 3          \* submit() calls that are accepted
MaxRefused == 1          \* submit() calls that are refused
MaxTimeout == 1          \* task timeouts are drawn from 1..MaxTimeout
MaxConcurrencyCap == 2   \* maxConcurrency is drawn from 1..MaxConcurrencyCap
ReaperInterval == 1      \* the reaper interval used (scaled down from 10 ms)
MaxCalls == 2            \* a completion callback is invoked at most twice
MaxStopTimeout == 1      \* stop(false, timeout) timeouts are drawn from 1..MaxStopTimeout
PastHorizon == 2         \* instants more than PastHorizon ago are merged

\* `undefined' for QueueItem.next, queueHead, queueTail.
NoItem == 0
\* `undefined' for an optional number, and a defined one.
None == <<>>
Some(x) == <<x>>
\* `undefined' for runningTasks[key].
NoTask == [expiration |-> None, id |-> -1]

\* A QueueItem that the queue no longer references.
\* The separator of path segments (path.sep) and the "." of a temporary name.
Sep == 47
Dot == 46

\* The mirror root and the staging directory: "/r" and "/t".
RootDir == <<Sep, 114>>
TmpDirPath == <<Sep, 116>>
\* options.tmpSuffix: ".tmp".
TmpSuffix == <<Dot, 116, 109, 112>>
\* The values of Math.random().toString(36).substr(2): "x".
RandomChunks == {<<120>>}

\* The characters the key transformers look for: "\" and ":".
Backslash == 92
Colon == 58

\* The keys a bucket may hold: "c", "d/", "d/a", "d/b" and "/d/a".
RemoteKeys == {<<99>>, <<100, Sep>>, <<100, Sep, 97>>, <<100, Sep, 98>>,
               <<Sep, 100, Sep, 97>>}
\* The relative paths of the files the local tree may hold at first.
LocalPaths == {<<99>>, <<100, Sep, 97>>, <<100, Sep, 98>>}
\* The relative paths of the directories that may be empty at first: "d".
LocalDirs == {<<100>>}

\* p.split(sep): the pieces of string p from character i on, the current
\* one begun as cur.
RECURSIVE SplitFrom(_, _, _, _)
SplitFrom(p, sep, i, cur) ==
  IF i > Len(p) THEN <<cur>>
  ELSE IF p[i] = sep THEN <<cur>> \o SplitFrom(p, sep, i + 1, <<>>)
  ELSE SplitFrom(p, sep, i + 1, Append(cur, p[i]))

\* The segments segs[i..] applied to the directory whose segments are out:
\* an empty segment and "." stay, ".." goes up (at the root: stays).
RECURSIVE NormalizeFrom(_, _, _)
NormalizeFrom(segs, i, out) ==
  IF i > Len(segs) THEN out
  ELSE IF segs[i] = <<>> \/ segs[i] = <<Dot>>
  THEN NormalizeFrom(segs, i + 1, out)
  ELSE IF segs[i] = <<Dot, Dot>>
  THEN NormalizeFrom(segs, i + 1,
                     IF out = <<>> THEN out ELSE SubSeq(out, 1, Len(out) - 1))
  ELSE NormalizeFrom(segs, i + 1, Append(out, segs[i]))

\* The absolute path of the segments segs[i..]; of none, the root.
RECURSIVE JoinFrom(_, _)
JoinFrom(segs, i) ==
  IF i > Len(segs) THEN <<>> ELSE <<Sep>> \o segs[i] \o JoinFrom(segs, i + 1)

\* path.resolve(dir, rel) on a POSIX platform, dir absolute: rel replaces
\* dir when it is absolute, and the result is normalised.
PathResolve(dir, rel) ==
  LET full == IF rel # <<>> /\ rel[1] = Sep THEN rel ELSE dir \o <<Sep>> \o rel
      segs == NormalizeFrom(SplitFrom(full, Sep, 1, <<>>), 1, <<>>)
  IN IF segs = <<>> THEN <<Sep>> ELSE JoinFrom(segs, 1)

\* The task of a test: it does nothing but invoke onComplete, or not.
AbstractTask == [op |-> "task", rel |-> <<>>]

\* A task whose body throws before it has invoked onComplete.
ThrowingTask == [op |-> "throw", rel |-> <<>>]

\* A QueueItem that the queue no longer references.
DeadItem == [next |-> NoItem, key |-> <<>>, runTimeout |-> None,
             task |-> AbstractTask]

\* The partition keys of the tests ("k1", "k2") and of the file-system tasks.
SubmitKeys == {<<107, 49>>, <<107, 50>>}
\* The relative paths handed to rmdirRecursive: "", ".", "./", "..", "/",
\* "d", "d/", "d/..", "/r", "/r/" and "../r".
RelDirPaths ==
  {<<>>, <<Dot>>, <<Dot, Sep>>, <<Dot, Dot>>, <<Sep>>, <<100>>, <<100, Sep>>,
   <<100, Sep, Dot, Dot>>, RootDir, RootDir \o <<Sep>>,
   <<Dot, Dot>> \o RootDir}
\* The relative paths handed to unlinkFile: those of the files, and "./c".
RelFilePaths == LocalPaths \cup {<<Dot, Sep, 99>>}
\* The keys of records with ".." segments: "c", "d/../c" and "../s/x".
DotDotKeys == {<<99>>, <<100, Sep, Dot, Dot, Sep, 99>>,
               <<Dot, Dot, Sep, 115, Sep, 120>>}

PathKeys ==
  {PathResolve(RootDir, k) :
     k \in {k2 \in RemoteKeys : k2[1] # Sep}
            \cup LocalPaths \cup RelDirPaths \cup RelFilePaths
            \cup DotDotKeys}
Keys == SubmitKeys \cup PathKeys
TimeoutVals == {Some(t) : t \in 1..MaxTimeout} \cup {None}
StopTimeoutVals == {Some(t) : t \in 1..MaxStopTimeout} \cup {None}

\* Date.now(): the origin of the time axis.
Now == 0

Max(a, b) == IF a >= b THEN a ELSE b

\* An optional instant after one tick of the clock.
Shift(t, floor) == IF t = None THEN None ELSE Some(Max(t[1] - 1, floor))

----------------------------------------------------------------------------
\* Variant of removeRunningTask without the run id guard.
RemoveRunningTaskAnyId(rt, rc, key, id) ==
  IF rt[key] # NoTask
  THEN [rt |-> [rt EXCEPT ![key] = NoTask], rc |-> rc - 1]
  ELSE [rt |-> rt, rc |-> rc]

\* removeRunningTask(key, id) applied to a table/count pair.
RemoveRunningTask(rt, rc, key, id) ==
  IF rt[key] # NoTask /\ rt[key].id = id
  THEN [rt |-> [rt EXCEPT ![key] = NoTask], rc |-> rc - 1]
  ELSE [rt |-> rt, rc |-> rc]

\* The expiry test used by the dispatcher and by the reaper.
Expired(expiration, clock) ==
  IF expiration = None THEN FALSE ELSE expiration[1] - clock <= 0

\* Variant of the test that does not look at the running-task table.
CanRunAlways(runningTaskForKey, clock) == TRUE

\* Variant of the test that takes any entry with an expiration as expired.
CanRunIfAnyExpiration(runningTaskForKey, clock) ==
  runningTaskForKey = NoTask \/ runningTaskForKey.expiration # None

\* The test of run() that decides whether the item's task may start.
CanRun(runningTaskForKey, clock) ==
  runningTaskForKey = NoTask \/ Expired(runningTaskForKey.expiration, clock)

\* Variant of the loop condition without the concurrency limit.
LoopGuardNoLimit(taskToRun, rc, maxc, immediately) ==
  taskToRun # NoItem /\ ~immediately

\* Variant of the loop condition without the immediate-shutdown test.
LoopGuardIgnoringStop(taskToRun, rc, maxc, immediately) ==
  taskToRun # NoItem /\ rc < maxc

\* The condition of the dispatcher's while loop.
LoopGuard(taskToRun, rc, maxc, immediately) ==
  taskToRun # NoItem /\ rc < maxc /\ ~immediately

\* Whether run() schedules itself again at the end of a pass.
Reschedule(isShutdown, immediately, sz) ==
  IF ~isShutdown THEN TRUE ELSE ~immediately /\ sz > 0

\* Date.now() as read in loop iteration i of a pass during which the clock
\* ticks once, just before iteration tickAt (tickAt = 0: no tick).
ClockAt(i, tickAt) ==
  IF tickAt # 0 /\ i >= tickAt THEN Now + 1 ELSE Now

\* The first call a task makes when the dispatcher starts it.
FirstStep(task) ==
  CASE task.op = "write"  -> "getS3Object"
    [] task.op = "mkdir"  -> "mkdir"
    [] task.op = "unlink" -> "unlink"
    [] task.op = "rmdir"  -> "rmdirRecursive"
    [] task.op = "throw"  -> "caught"
    [] OTHER              -> "task"

\* Variant of ReleaseOnThrow: the catch block does nothing.
ReleaseOnThrowSkipped(rt, rc, key, id) == [rt |-> rt, rc |-> rc]

\* The catch block of run(): the slot of the task that threw is released.
ReleaseOnThrow(rt, rc, key, id) == RemoveRunningTask(rt, rc, key, id)

\* The `if' branch of the loop body: start the task of item P.t.  The task
\* body either invokes onComplete before it returns to the dispatcher (sync),
\* or returns without invoking it (the callback may be invoked later, or
\* never), or throws: the queue then releases the slot if it catches errors,
\* and otherwise the exception leaves the loop and the callback of
\* setImmediate before size and runCount are updated.
StartTask(P, clock, sync) ==
  LET it   == P.items[P.t]
      key  == it.key
      old  == P.rt[key]
      id   == P.rid
      exp  == IF it.runTimeout # None THEN Some(it.runTimeout[1] + clock)
                                      ELSE None
      rt1  == [P.rt EXCEPT ![key] = [expiration |-> exp, id |-> id]]
      throws == it.task = ThrowingTask
      done == IF throws THEN ReleaseOnThrow(rt1, P.rc, key, id)
              ELSE IF sync THEN RemoveRunningTask(rt1, P.rc, key, id)
              ELSE [rt |-> rt1, rc |-> P.rc]
      run  == [item |-> P.t, key |-> key, id |-> id,
               expiration |-> IF sync \/ throws THEN None ELSE exp,
               calls |-> IF sync /\ ~throws THEN 1 ELSE 0,
               late |-> FALSE,
               task |-> it.task, pc |-> FirstStep(it.task),
               tmp |-> <<>>, log |-> <<>>,
               err |-> None]
  IN IF throws /\ ~catchErrors
     THEN [P EXCEPT !.rid  = id + 1,
                    !.rt   = rt1,
                    !.runs = Append(P.runs, [run EXCEPT !.pc = "uncaught"]),
                    !.thrown = TRUE]
     ELSE [P EXCEPT !.rid  = id + 1,
                    !.rt   = done.rt,
                    !.size = P.size - 1,
                    !.rc   = IF old = NoTask THEN done.rc + 1 ELSE done.rc,
                    !.runs = Append(P.runs, run)]

\* The `else' branch of the loop body: the key is busy, keep the item.
SkipTask(P) ==
  IF P.prev # NoItem
  THEN [P EXCEPT !.items = [P.items EXCEPT ![P.prev].next = P.t],
                 !.prev  = P.t]
  ELSE [P EXCEPT !.prev = P.t, !.head = P.t]

\* The lines after the if/else of the loop body: advance taskToRun.
Advance(P) ==
  LET nxt == P.items[P.t].next
  IN [P EXCEPT !.t = nxt,
               !.head = IF P.prev = NoItem THEN nxt ELSE P.head,
               !.i = P.i + 1]

\* The locals of run() and the queue state at the start of a pass.
PassStart ==
  [items |-> items, head |-> queueHead, tail |-> queueTail,
   size |-> size, rt |-> runningTasks, rc |-> runCount,
   rid |-> runId, runs |-> runs,
   t |-> queueHead, prev |-> NoItem, i |-> 1, thrown |-> FALSE]

\* The while loop of run().
RECURSIVE RunLoop(_, _, _)
RunLoop(P, tickAt, syncItems) ==
  IF ~LoopGuard(P.t, P.rc, maxConcurrency, shutdownImmediately)
  THEN P
  ELSE LET clock == ClockAt(P.i, tickAt)
           body  == IF CanRun(P.rt[P.items[P.t].key], clock)
                    THEN StartTask(P, clock, P.t \in syncItems)
                    ELSE SkipTask(P)
       IN IF body.thrown THEN body
          ELSE CHOOSE R \in {RunLoop(P1, tickAt, syncItems) :
                               P1 \in {Advance(body)}} : TRUE

\* Variant of AfterLoop that links nothing.
AfterLoopWithoutRelink(P) == P

\* The re-linking after the loop.
AfterLoop(P) ==
  IF P.t = NoItem
  THEN IF P.prev # NoItem
       THEN [P EXCEPT !.tail = P.prev,
                      !.items = [P.items EXCEPT ![P.prev].next = NoItem]]
       ELSE P
  ELSE IF P.prev # NoItem
       THEN [P EXCEPT !.items = [P.items EXCEPT ![P.prev].next = P.t]]
       ELSE P

\* The items reachable from item t through next.
RECURSIVE Reach(_, _, _)
Reach(its, t, seen) ==
  IF t = NoItem \/ t \in seen THEN seen
  ELSE Reach(its, its[t].next, seen \cup {t})

\* The heap once the items that the queue no longer references are cleared.
Collect(its, head, tail) ==
  LET live == Reach(its, head, {}) \cup {tail}
  IN [n \in 1..Len(its) |-> IF n \in live THEN its[n] ELSE DeadItem]

\* The running-task table and the started tasks after one tick of the clock.
ShiftTable(rt) ==
  [k \in Keys |-> IF rt[k] = NoTask THEN NoTask
                  ELSE [rt[k] EXCEPT !.expiration = Shift(@, -PastHorizon)]]

ShiftRuns(rs) ==
  [r \in 1..Len(rs) |-> [rs[r] EXCEPT !.expiration = Shift(@, 0)]]

\* No timer is due: the event loop has nothing to fire at the current time.
Due(timer) == IF timer = None THEN FALSE ELSE timer[1] <= Now

CanTick == ~Due(reapTimer) /\ ~Due(stopTimer)

----------------------------------------------------------------------------
\* new AsyncOpQueue(options): run() and reap() are called by the constructor.
NewQueueWith(maxc, catch) ==
  /\ maxConcurrency = maxc
  /\ catchErrors = catch
  /\ reaperIntervalMillis = ReaperInterval
  /\ runningTasks = [k \in Keys |-> NoTask]
  /\ runCount = 0
  /\ items = <<>>
  /\ queueHead = NoItem
  /\ queueTail = NoItem
  /\ size = 0
  /\ runId = 0
  /\ shutdown = FALSE
  /\ shutdownImmediately = FALSE
  /\ runScheduled = TRUE
  /\ reapTimer = IF reaperIntervalMillis > 0
                 THEN Some(Now + reaperIntervalMillis) ELSE None
  /\ stopTimer = None
  /\ runs = <<>>
  /\ refused = 0

\* new AsyncOpQueue(options) without options.catchErrors
NewQueue(maxc) == NewQueueWith(maxc, FALSE)

\* No library function is called on its own.
NoCall == [fn |-> "none"]

\* run() has not been called: no service, no timer and no hook.
NoService ==
  /\ runOptions = [skipInitialSync |-> TRUE, resyncInterval |-> FALSE,
                   port |-> FALSE, topicArn |-> FALSE,
                   ignoreUnsubscribeOnShutdown |-> FALSE]
  /\ currentlySyncing = FALSE
  /\ syncTimeout = "unset"
  /\ passesRunning = 0
  /\ passesStarted = 0
  /\ httpServer = "off"
  /\ SubscriptionArn = None
  /\ hasUnsubscribed = FALSE
  /\ snsCalls = <<>>
  /\ snsPending = {}
  /\ shutdownHandlers = {}
  /\ exitGroups = {}
  /\ exitTimer = FALSE
  /\ exited = "no"
  /\ stopCalls = 0
  /\ signalled = FALSE

\* No SNS ingress: no request is ever received.
NoIngress ==
  /\ snsOptions = [ignoreMessageValidation |-> FALSE, prefix |-> None,
                   suffix |-> None]
  /\ requests = <<>>
  /\ fatal = FALSE
  /\ NoService

\* A queue on its own, as the tests of AsyncOpQueue use it.
InitQueue ==
  /\ NoIngress
  /\ libCall = NoCall
  /\ \E maxc \in 1..MaxConcurrencyCap : NewQueue(maxc)
  /\ remote = {}
  /\ remove = FALSE
  /\ tmpDir = None
  /\ fsFiles = <<>>
  /\ fsDirs = {}
  /\ syncState = "off"

\* The body of submit() once the queue has accepted the task.
Enqueue(Q, key, task, runTimeout) ==
  LET n == Len(Q.items) + 1
      queueItem == [next |-> NoItem, key |-> key, runTimeout |-> runTimeout,
                    task |-> task]
  IN IF Q.head = NoItem
     THEN [items |-> Collect(Append(Q.items, queueItem), n, n),
           head |-> n, tail |-> n, size |-> Q.size + 1]
     ELSE [items |-> Append([Q.items EXCEPT ![Q.tail].next = n], queueItem),
           head |-> Q.head, tail |-> n, size |-> Q.size + 1]

\* The linked list of the queue.
QueueList == [items |-> items, head |-> queueHead, tail |-> queueTail,
              size |-> size]

\* Variant of the test of submit() that refuses only after an immediate stop.
SubmitAcceptedWhileDraining == ~shutdownImmediately

\* The test at the top of submit(): a stopped queue takes no task.
SubmitAccepted == ~shutdown

\* submit(key, task, runTimeout), as long as fewer than max tasks have been
\* accepted.
SubmitTask(key, task, runTimeout, max) ==
  IF SubmitAccepted
  THEN /\ Len(items) < max
       /\ LET Q == Enqueue(QueueList, key, task, runTimeout)
          IN /\ items' = Q.items
             /\ queueHead' = Q.head
             /\ queueTail' = Q.tail
             /\ size' = Q.size
       /\ UNCHANGED <<maxConcurrency, catchErrors, reaperIntervalMillis, runningTasks,
                      runCount, runId, shutdown, shutdownImmediately,
                      runScheduled, reapTimer, stopTimer, runs, refused,
                      syncVars, hostVars, libCall>>
  ELSE /\ refused < MaxRefused
       /\ refused' = refused + 1
       /\ UNCHANGED <<maxConcurrency, catchErrors, reaperIntervalMillis, runningTasks,
                      runCount, items, queueHead, queueTail, size, runId,
                      shutdown, shutdownImmediately, runScheduled,
                      reapTimer, stopTimer, runs, syncVars, hostVars, libCall>>

\* submit(key, task, runTimeout) with a task of a test.
SubmitWithin(key, runTimeout, max) ==
  SubmitTask(key, AbstractTask, runTimeout, max)

\* submit(key, task, runTimeout)
Submit(key, runTimeout) == SubmitWithin(key, runTimeout, MaxSubmits)

\* The setImmediate callback of run(): one pass of the dispatcher, during
\* which the clock ticks before iteration tickAt (0: not at all), and in which
\* the tasks of the items in syncItems invoke onComplete synchronously.
RunPass(tickAt, syncItems) ==
  /\ runScheduled
  /\ tickAt # 0 => CanTick
  /\ \E P \in {LET L == RunLoop(PassStart, tickAt, syncItems)
                IN IF L.thrown THEN L ELSE AfterLoop(L)} :
          LET ticked == tickAt # 0
          IN /\ items' = Collect(P.items, P.head, P.tail)
             /\ queueHead' = P.head
             /\ queueTail' = P.tail
             /\ size' = P.size
             /\ runningTasks' = IF ticked THEN ShiftTable(P.rt) ELSE P.rt
             /\ runCount' = P.rc
             /\ runId' = P.rid
             /\ runs' = IF ticked THEN ShiftRuns(P.runs) ELSE P.runs
             /\ runScheduled' = IF P.thrown THEN FALSE
                                ELSE Reschedule(shutdown, shutdownImmediately,
                                                P.size)
             /\ fatal' = (fatal \/ P.thrown)
             /\ reapTimer' = IF ticked THEN Shift(reapTimer, 0) ELSE reapTimer
             /\ stopTimer' = IF ticked THEN Shift(stopTimer, 0) ELSE stopTimer
  /\ UNCHANGED <<maxConcurrency, catchErrors, reaperIntervalMillis, shutdown,
                 shutdownImmediately, refused, syncVars, snsOptions, requests,
                 serviceVars, libCall>>

\* A pass of the dispatcher over tasks of any kind.
Run ==
  \E tickAt \in 0..Len(items), syncItems \in SUBSET Reach(items, queueHead, {}) :
    RunPass(tickAt, syncItems)

\* The sweep of the reaper over the running-task table.
Sweep(rt, rc, clock) ==
  LET dead == {k \in Keys : rt[k] # NoTask /\ Expired(rt[k].expiration, clock)}
  IN [rt |-> [k \in Keys |-> IF k \in dead THEN NoTask ELSE rt[k]],
      rc |-> rc - Cardinality(dead)]

\* The setTimeout callback of reap(), followed by the call of reap() it ends with.
Reap ==
  /\ Due(reapTimer)
  /\ LET r == Sweep(runningTasks, runCount, Now)
     IN /\ runningTasks' = r.rt
        /\ runCount' = r.rc
  /\ reapTimer' = IF reaperIntervalMillis > 0 /\ ~shutdown
                  THEN Some(Now + reaperIntervalMillis) ELSE None
  /\ UNCHANGED <<maxConcurrency, catchErrors, reaperIntervalMillis, items, queueHead,
                 queueTail, size, runId, shutdown, shutdownImmediately,
                 runScheduled, stopTimer, runs, refused, syncVars, hostVars, libCall>>

\* The key of runs[r] is held by a task other than runs[r].
OtherHolds(r) ==
  /\ runningTasks[runs[r].key] # NoTask
  /\ runningTasks[runs[r].key].id # runs[r].id

\* The task of runs[r] may invoke its completion callback now: a test task at
\* any time, a promise task (submitPromiseTask) once its promise is resolved,
\* or rejected if the queue catches errors.
CallbackDue(r) ==
  IF runs[r].task = AbstractTask THEN runs[r].calls < MaxCalls
  ELSE runs[r].pc = "resolved" \/ (catchErrors /\ runs[r].pc = "rejected")

\* The completion callback handed to the task of runs[r] is invoked.
Complete(r) ==
  /\ r \in 1..Len(runs)
  /\ CallbackDue(r)
  /\ LET d == RemoveRunningTask(runningTasks, runCount, runs[r].key, runs[r].id)
     IN /\ runningTasks' = d.rt
        /\ runCount' = d.rc
  /\ runs' = [runs EXCEPT ![r].calls = @ + 1, ![r].expiration = None,
                          ![r].late = @ \/ OtherHolds(r),
                          ![r].pc = CASE @ = "resolved" -> "done"
                                      [] @ = "rejected" -> "failed"
                                      [] OTHER -> @]
  /\ UNCHANGED <<maxConcurrency, catchErrors, reaperIntervalMillis, items, queueHead,
                 queueTail, size, runId, shutdown, shutdownImmediately,
                 runScheduled, reapTimer, stopTimer, refused, syncVars, hostVars, libCall>>

\* stop(immediately, timeout)
Stop(immediately, timeout) ==
  /\ ~shutdown
  /\ shutdown' = TRUE
  /\ shutdownImmediately' = immediately
  /\ stopTimer' = IF timeout # None /\ ~immediately
                  THEN Some(Now + timeout[1]) ELSE stopTimer
  /\ UNCHANGED <<maxConcurrency, catchErrors, reaperIntervalMillis, runningTasks, runCount,
                 items, queueHead, queueTail, size, runId, runScheduled,
                 reapTimer, runs, refused, syncVars, hostVars, libCall>>

\* The setTimeout callback armed by stop(false, timeout).
StopTimeout ==
  /\ Due(stopTimer)
  /\ shutdownImmediately' = TRUE
  /\ stopTimer' = None
  /\ UNCHANGED <<maxConcurrency, catchErrors, reaperIntervalMillis, runningTasks, runCount,
                 items, queueHead, queueTail, size, runId, shutdown,
                 runScheduled, reapTimer, runs, refused, syncVars, hostVars, libCall>>

\* Time passes while the event loop is idle.
Tick ==
  /\ CanTick
  /\ runningTasks' = ShiftTable(runningTasks)
  /\ runs' = ShiftRuns(runs)
  /\ reapTimer' = Shift(reapTimer, 0)
  /\ stopTimer' = Shift(stopTimer, 0)
  /\ UNCHANGED <<maxConcurrency, catchErrors, reaperIntervalMillis, runCount,
                 items, queueHead, queueTail, size, runId, shutdown,
                 shutdownImmediately, runScheduled, refused, syncVars, hostVars, libCall>>

NextQueue ==
  \/ \E k \in SubmitKeys, to \in TimeoutVals : Submit(k, to)
  \/ Run
  \/ Reap
  \/ \E r \in 1..Len(runs) : Complete(r)
  \/ \E im \in BOOLEAN, to \in StopTimeoutVals : Stop(im, to)
  \/ StopTimeout
  \/ Tick

SpecQueue == InitQueue /\ [][NextQueue]_vars

\* The event loop runs every pending setImmediate and setTimeout callback,
\* and time passes.
SpecQueueFair ==
  /\ InitQueue /\ [][NextQueue]_vars
  /\ WF_vars(Run) /\ WF_vars(Reap) /\ WF_vars(StopTimeout) /\ WF_vars(Tick)

MaxDrainSubmits == 2     \* submit() calls that are accepted before a drain

\* The queue with up to MaxDrainSubmits tasks.
NextQueueDrain ==
  \/ \E k \in SubmitKeys, to \in TimeoutVals :
       SubmitWithin(k, to, MaxDrainSubmits)
  \/ Run
  \/ Reap
  \/ \E r \in 1..Len(runs) : Complete(r)
  \/ \E im \in BOOLEAN, to \in StopTimeoutVals : Stop(im, to)
  \/ StopTimeout
  \/ Tick

\* The event loop runs every pending callback and time passes, with tasks
\* that all invoke their completion callback in the end.
SpecQueueDrain ==
  /\ InitQueue /\ [][NextQueueDrain]_vars
  /\ WF_vars(Run) /\ WF_vars(Reap) /\ WF_vars(StopTimeout) /\ WF_vars(Tick)
  /\ \A r \in 1..MaxDrainSubmits : WF_vars(Complete(r))

\* The queue with up to MaxDrainSubmits tasks, each with a run timeout.
NextQueueExpire ==
  \/ \E k \in SubmitKeys, t \in 1..MaxTimeout :
       SubmitWithin(k, Some(t), MaxDrainSubmits)
  \/ Run
  \/ Reap
  \/ \E r \in 1..Len(runs) : Complete(r)
  \/ \E im \in BOOLEAN, to \in StopTimeoutVals : Stop(im, to)
  \/ StopTimeout
  \/ Tick

\* The event loop runs every pending callback and time passes; a task may
\* never invoke its completion callback.
SpecQueueExpire ==
  /\ InitQueue /\ [][NextQueueExpire]_vars
  /\ WF_vars(Run) /\ WF_vars(Reap) /\ WF_vars(StopTimeout) /\ WF_vars(Tick)

MaxStopArgs == 2         \* calls of stop() on one queue

\* A queue whose calls of stop() are recorded with their arguments.
InitQueueStops ==
  /\ NoIngress
  /\ libCall = [fn |-> "stop", args |-> <<>>]
  /\ \E maxc \in 1..MaxConcurrencyCap : NewQueue(maxc)
  /\ remote = {}
  /\ remove = FALSE
  /\ tmpDir = None
  /\ fsFiles = <<>>
  /\ fsDirs = {}
  /\ syncState = "off"

\* stop(immediately, timeout), called on a queue in any state.
StopCall(immediately, timeout) ==
  /\ libCall.fn = "stop"
  /\ Len(libCall.args) < MaxStopArgs
  /\ libCall' = [libCall EXCEPT
                   !.args = Append(@, [immediately |-> immediately,
                                       timeout |-> timeout])]
  /\ IF ~shutdown
     THEN /\ shutdown' = TRUE
          /\ shutdownImmediately' = immediately
          /\ stopTimer' = IF timeout # None /\ ~immediately
                          THEN Some(Now + timeout[1]) ELSE stopTimer
     ELSE UNCHANGED <<shutdown, shutdownImmediately, stopTimer>>
  /\ UNCHANGED <<maxConcurrency, catchErrors, reaperIntervalMillis, runningTasks,
                 runCount, items, queueHead, queueTail, size, runId,
                 runScheduled, reapTimer, runs, refused, syncVars, hostVars>>

NextQueueStops ==
  \/ \E k \in SubmitKeys, to \in TimeoutVals :
       SubmitWithin(k, to, MaxDrainSubmits)
  \/ Run
  \/ Reap
  \/ \E r \in 1..Len(runs) : Complete(r)
  \/ \E im \in BOOLEAN, to \in StopTimeoutVals : StopCall(im, to)
  \/ StopTimeout
  \/ Tick

SpecQueueStops == InitQueueStops /\ [][NextQueueStops]_vars

\* A queue of two slots and tasks without timeout, as the tests of the
\* dispatch order use it: more tasks than slots, some of them on a busy key.
InitQueueBusy ==
  /\ NoIngress
  /\ libCall = NoCall
  /\ NewQueue(MaxConcurrencyCap)
  /\ remote = {}
  /\ remove = FALSE
  /\ tmpDir = None
  /\ fsFiles = <<>>
  /\ fsDirs = {}
  /\ syncState = "off"

NextQueueBusy ==
  \/ \E k \in SubmitKeys : SubmitWithin(k, None, MaxBusySubmits)
  \/ \E syncItems \in SUBSET Reach(items, queueHead, {}) : RunPass(0, syncItems)
  \/ \E r \in 1..Len(runs) : Complete(r)

SpecQueueBusy == InitQueueBusy /\ [][NextQueueBusy]_vars

MaxThrowSubmits == 3     \* submit() calls of the queues whose tasks may throw

\* A queue with or without catchErrors, as the test `Should catch error and
\* run next task' uses it, with tasks without timeout.
InitQueueThrow ==
  /\ NoIngress
  /\ libCall = NoCall
  /\ \E maxc \in 1..MaxConcurrencyCap, catch \in BOOLEAN :
       NewQueueWith(maxc, catch)
  /\ remote = {}
  /\ remove = FALSE
  /\ tmpDir = None
  /\ fsFiles = <<>>
  /\ fsDirs = {}
  /\ syncState = "off"

NextQueueThrow ==
  \/ \E k \in SubmitKeys, task \in {AbstractTask, ThrowingTask} :
       SubmitTask(k, task, None, MaxThrowSubmits)
  \/ \E syncItems \in SUBSET Reach(items, queueHead, {}) : RunPass(0, syncItems)
  \/ \E r \in 1..Len(runs) : Complete(r)

SpecQueueThrow == InitQueueThrow /\ [][NextQueueThrow]_vars

----------------------------------------------------------------------------
\* Part 2: strings, paths and the file system.

\* Buffer.compare of the UTF-8 bytes of a and b, from byte i on.
RECURSIVE CompareFrom(_, _, _)
CompareFrom(a, b, i) ==
  IF i > Len(a) /\ i > Len(b) THEN 0
  ELSE IF i > Len(a) THEN -1
  ELSE IF i > Len(b) THEN 1
  ELSE IF a[i] < b[i] THEN -1
  ELSE IF a[i] > b[i] THEN 1
  ELSE CompareFrom(a, b, i + 1)

compareStringsUtf8BinaryOrder(a, b) == CompareFrom(a, b, 1)

\* str.charAt(i), with i counted from 0: the empty string beyond the ends.
CharAt(str, i) == IF i + 1 \in 1..Len(str) THEN <<str[i + 1]>> ELSE <<>>

\* s.indexOf(p) === 0
StartsWith(s, p) == Len(p) <= Len(s) /\ SubSeq(s, 1, Len(p)) = p

keyBelongsInCurrentDirectory(curDir, s3Key) == StartsWith(s3Key, curDir)

\* On a platform other than win32.
checkKeyOrPathIsDirectory(key) == CharAt(key, Len(key) - 1) = <<Sep>>

keyIsDirectory(key) == CharAt(key, Len(key) - 1) = <<Sep>>

getRelativePathToRootDir(rootDir, curDir) ==
  SubSeq(curDir, Len(rootDir) + 2, Len(curDir))

\* The test reads the character at str.length, which is beyond the end.
ensurePathEndsWithOsSeparator(str) ==
  IF CharAt(str, Len(str)) = <<Sep>> THEN str ELSE str \o <<Sep>>

\* path.parse(p).dir: what precedes the last separator of p.
RECURSIVE LastSep(_, _)
LastSep(p, i) == IF i = 0 THEN 0 ELSE IF p[i] = Sep THEN i ELSE LastSep(p, i - 1)

PathDir(p) == SubSeq(p, 1, LastSep(p, Len(p)) - 1)

\* The directories that mkdir(p, {recursive: true}) makes sure of: p and the
\* directories above it.
PathAncestors(p) ==
  {SubSeq(p, 1, i - 1) : i \in {j \in 2..Len(p) : p[j] = Sep}} \cup {p}

\* The files a task writes and the files the tree holds at first.  A file
\* written by this program is newer than the object and has its size.
S3Object == [LastModified |-> 1, Size |-> 2]
StaleFile == [body |-> "old", mtime |-> 0, size |-> 1]
FreshFile == [body |-> "new", mtime |-> 2, size |-> 2]
PartialFile == [body |-> "partial", mtime |-> 2, size |-> 1]
DirStats == [body |-> "dir", mtime |-> 0, size |-> 0]

\* The file system with file p set to f, and with file p gone.
PutFile(files, p, f) ==
  [q \in DOMAIN files \cup {p} |-> IF q = p THEN f ELSE files[q]]

DropFiles(files, gone) == [q \in DOMAIN files \ gone |-> files[q]]

\* The entries of directory dir, as readdir(dir) returns them.
Readdir(files, dirs, dir) ==
  {p \in DOMAIN files \cup dirs : Len(p) > 0 /\ PathDir(p) = dir}

\* The files and directories below directory dir.
Below(paths, dir) == {p \in paths : StartsWith(p, dir \o <<Sep>>)}

\* mkdir(p, {recursive: true}) succeeds unless a file is in the way.
MkdirAllowed(files, p) == PathAncestors(p) \cap DOMAIN files = {}

\* A set of strings as the list sorted in UTF-8 byte order.
RECURSIVE SortedList(_)
SortedList(S) ==
  IF S = {} THEN <<>>
  ELSE LET m == CHOOSE x \in S :
                  \A y \in S : compareStringsUtf8BinaryOrder(x, y) <= 0
       IN <<m>> \o SortedList(S \ {m})

\* removeRootDirCharsFromS3Key: the position (from 0) of the first character
\* of key that does not belong to a leading "/", "\", "X:/" or "X:\".
RECURSIVE RootCharsEnd(_, _)
RootCharsEnd(key, startPos) ==
  IF CharAt(key, startPos) = <<Sep>> \/ CharAt(key, startPos) = <<Backslash>>
  THEN RootCharsEnd(key, startPos + 1)
  ELSE IF /\ Len(key) - startPos >= 2
          /\ key[startPos + 1] >= 65
          /\ key[startPos + 1] <= 90
          /\ CharAt(key, startPos + 1) = <<Colon>>
          /\ \/ CharAt(key, startPos + 2) = <<Backslash>>
             \/ CharAt(key, startPos + 2) = <<Sep>>
  THEN RootCharsEnd(key, startPos + 3)
  ELSE startPos

removeRootDirCharsFromS3Key(key) ==
  SubSeq(key, RootCharsEnd(key, 0) + 1, Len(key))

\* replaceKeyDirCharsWithSystemSep on a platform other than win32.
replaceKeyDirCharsWithSystemSep(str) ==
  [i \in 1..Len(str) |-> IF str[i] = Backslash THEN Sep ELSE str[i]]

\* applyTransformersToKey with the transformers of
\* getDefaultS3KeyTransformers, no normalization form given.
applyTransformersToKey(key) ==
  replaceKeyDirCharsWithSystemSep(removeRootDirCharsFromS3Key(key))

\* The objects of allBucketKeys: of the keys with the same transformed key,
\* the one listed last, that is the greatest; none for a transformed key
\* that is empty or "/".
KeptKeys(bucket) ==
  {k \in bucket :
     /\ applyTransformersToKey(k) \notin {<<>>, <<Sep>>}
     /\ \A k2 \in bucket :
          applyTransformersToKey(k2) = applyTransformersToKey(k)
            => compareStringsUtf8BinaryOrder(k2, k) <= 0}

\* getS3List without a suffix filter: the objects kept, each with its
\* transformed key, sorted by Key.
getS3List(bucket) ==
  LET keys == SortedList(KeptKeys(bucket))
  IN [i \in 1..Len(keys) |->
        [Key |-> keys[i], transformedKey |-> applyTransformersToKey(keys[i]),
         LastModified |-> S3Object.LastModified, Size |-> S3Object.Size]]

\* getDirectoryEntries(rootDir, rootDir): every file and directory below
\* rootDir with its stats, a directory with a trailing separator, sorted.
getDirectoryEntries(files, dirs, rootDir) ==
  LET rel(p) == getRelativePathToRootDir(rootDir, p)
      names == {rel(p) : p \in Below(DOMAIN files, rootDir)}
                 \cup {rel(p) \o <<Sep>> : p \in Below(dirs, rootDir)}
      list  == SortedList(names)
  IN [i \in 1..Len(list) |->
        [relativePath |-> list[i],
         stats |-> IF checkKeyOrPathIsDirectory(list[i]) THEN DirStats
                   ELSE files[PathResolve(rootDir, list[i])]]]

----------------------------------------------------------------------------
\* The reconciler: the tasks one pass of sync() submits, in order.

\* What writeS3Object, unlinkFile and rmdirRecursive submit.
writeS3Object(transformedKey) ==
  <<[op |-> IF keyIsDirectory(transformedKey) THEN "mkdir" ELSE "write",
     rel |-> transformedKey]>>

unlinkFile(relativeFilePath) == <<[op |-> "unlink", rel |-> relativeFilePath]>>

\* rmdirRecursive throws, and submits nothing, when the path resolves to "/".
rmdirRecursive(relativeDirPath) ==
  IF ensurePathEndsWithOsSeparator(relativeDirPath)
       # ensurePathEndsWithOsSeparator(RootDir)
     /\ PathResolve(RootDir, relativeDirPath) # <<Sep>>
  THEN <<[op |-> "rmdir", rel |-> relativeDirPath]>>
  ELSE <<>>

\* Variant of NextDirEntryAfterRemovedDir that skips nothing.
NextDirEntryWithoutSkip(dirEntries, pos, removedDir) == pos

\* getNextDirEntryAfterRemovedDir: the position of the first entry from pos
\* on that does not start with removedDir.
RECURSIVE NextDirEntryAfterRemovedDir(_, _, _)
NextDirEntryAfterRemovedDir(dirEntries, pos, removedDir) ==
  IF pos <= Len(dirEntries)
     /\ StartsWith(dirEntries[pos].relativePath, removedDir)
  THEN NextDirEntryAfterRemovedDir(dirEntries, pos + 1, removedDir)
  ELSE pos

\* Variant of NeedsUpdate: every entry that has an object is written.
NeedsUpdateAlways(dirEntry, s3ListObj) == TRUE

\* The update test of the case `DirEntry = S3Key'.
NeedsUpdate(dirEntry, s3ListObj) ==
  /\ ~checkKeyOrPathIsDirectory(dirEntry.relativePath)
  /\ \/ s3ListObj.LastModified > dirEntry.stats.mtime
     \/ s3ListObj.Size # dirEntry.stats.size

\* The while loop of sync(): s3ListObj is s3List[i] and dirEntry is
\* dirEntries[j], each undefined beyond the end of its list.
RECURSIVE SyncLoop(_, _, _, _, _)
SyncLoop(s3List, dirEntries, i, j, rm) ==
  IF j <= Len(dirEntries) /\ i <= Len(s3List)
  THEN LET path == dirEntries[j].relativePath
           transformedKey == s3List[i].transformedKey
           cmp  == compareStringsUtf8BinaryOrder(path, transformedKey)
       IN IF cmp = -1
          THEN IF rm
               THEN IF checkKeyOrPathIsDirectory(path)
                       /\ ~keyBelongsInCurrentDirectory(path, transformedKey)
                    THEN rmdirRecursive(path)
                           \o SyncLoop(s3List, dirEntries, i,
                                NextDirEntryAfterRemovedDir(dirEntries, j + 1, path),
                                rm)
                    ELSE IF ~checkKeyOrPathIsDirectory(path)
                    THEN unlinkFile(path)
                           \o SyncLoop(s3List, dirEntries, i, j + 1, rm)
                    ELSE SyncLoop(s3List, dirEntries, i, j + 1, rm)
               ELSE SyncLoop(s3List, dirEntries, i, j + 1, rm)
          ELSE IF cmp = 0
          THEN (IF NeedsUpdate(dirEntries[j], s3List[i])
                THEN writeS3Object(transformedKey) ELSE <<>>)
                 \o SyncLoop(s3List, dirEntries, i + 1, j + 1, rm)
          ELSE writeS3Object(transformedKey)
                 \o SyncLoop(s3List, dirEntries, i + 1, j, rm)
  ELSE IF j <= Len(dirEntries)
  THEN IF rm
       THEN IF checkKeyOrPathIsDirectory(dirEntries[j].relativePath)
            THEN rmdirRecursive(dirEntries[j].relativePath)
                   \o SyncLoop(s3List, dirEntries, i,
                        NextDirEntryAfterRemovedDir(dirEntries, j + 1,
                          dirEntries[j].relativePath),
                        rm)
            ELSE unlinkFile(dirEntries[j].relativePath)
                   \o SyncLoop(s3List, dirEntries, i, j + 1, rm)
       ELSE SyncLoop(s3List, dirEntries, i, j + 1, rm)
  ELSE IF i <= Len(s3List)
  THEN writeS3Object(s3List[i].transformedKey)
         \o SyncLoop(s3List, dirEntries, i + 1, j, rm)
  ELSE <<>>

\* One iteration of the while loop of sync(), s3ListObj being s3List[i] and
\* dirEntry dirEntries[j]: the tasks it submits and the positions it leaves.
SyncStep(s3List, dirEntries, i, j, rm) ==
  LET Out(tasks, ni, nj) == [i |-> i, j |-> j, tasks |-> tasks, ni |-> ni, nj |-> nj]
      AfterDir == NextDirEntryAfterRemovedDir(dirEntries, j + 1,
                                              dirEntries[j].relativePath)
  IN IF j <= Len(dirEntries) /\ i <= Len(s3List)
     THEN LET path == dirEntries[j].relativePath
              transformedKey == s3List[i].transformedKey
              cmp  == compareStringsUtf8BinaryOrder(path, transformedKey)
          IN IF cmp = -1
             THEN IF rm
                  THEN IF checkKeyOrPathIsDirectory(path)
                          /\ ~keyBelongsInCurrentDirectory(path, transformedKey)
                       THEN Out(rmdirRecursive(path), i, AfterDir)
                       ELSE IF ~checkKeyOrPathIsDirectory(path)
                       THEN Out(unlinkFile(path), i, j + 1)
                       ELSE Out(<<>>, i, j + 1)
                  ELSE Out(<<>>, i, j + 1)
             ELSE IF cmp = 0
             THEN Out(IF NeedsUpdate(dirEntries[j], s3List[i])
                      THEN writeS3Object(transformedKey) ELSE <<>>,
                      i + 1, j + 1)
             ELSE Out(writeS3Object(transformedKey), i + 1, j)
     ELSE IF j <= Len(dirEntries)
     THEN IF rm
          THEN IF checkKeyOrPathIsDirectory(dirEntries[j].relativePath)
               THEN Out(rmdirRecursive(dirEntries[j].relativePath), i, AfterDir)
               ELSE Out(unlinkFile(dirEntries[j].relativePath), i, j + 1)
          ELSE Out(<<>>, i, j + 1)
     ELSE Out(writeS3Object(s3List[i].transformedKey), i + 1, j)

\* The iterations of the while loop of sync(), in order.
RECURSIVE SyncSteps(_, _, _, _, _)
SyncSteps(s3List, dirEntries, i, j, rm) ==
  IF j > Len(dirEntries) /\ i > Len(s3List) THEN <<>>
  ELSE LET step == SyncStep(s3List, dirEntries, i, j, rm)
       IN <<step>> \o SyncSteps(s3List, dirEntries, step.ni, step.nj, rm)

\* The run timeout of every task the file-system operations submit:
\* defaultTaskRunTimeoutMillis of the queue that options.ts creates.
DefaultTaskRunTimeoutMillis == 60000

\* submitPromiseTask(path.resolve(rootDir, rel), ...) for each task in turn.
RECURSIVE SubmitAll(_, _, _)
SubmitAll(Q, tasks, n) ==
  IF n > Len(tasks) THEN Q
  ELSE SubmitAll(Enqueue(Q, PathResolve(RootDir, tasks[n].rel), tasks[n],
                         Some(DefaultTaskRunTimeoutMillis)),
                 tasks, n + 1)

----------------------------------------------------------------------------
\* The reconciler and the steps of the file-system tasks.

\* A mirror of the bucket: the options, the bucket and the local tree before
\* the first pass, and the queue that options.ts creates.
InitSync ==
  /\ NoIngress
  /\ libCall = NoCall
  /\ NewQueue(MaxConcurrencyCap)
  /\ remote \in SUBSET RemoteKeys
  /\ remove \in BOOLEAN
  /\ tmpDir \in {None, Some(TmpDirPath)}
  /\ \E present \in SUBSET LocalPaths, empty \in SUBSET LocalDirs :
       /\ fsFiles \in [{PathResolve(RootDir, p) : p \in present}
                         -> {StaleFile, FreshFile}]
       /\ fsDirs = {RootDir}
                     \cup (IF tmpDir # None THEN {tmpDir[1]} ELSE {})
                     \cup UNION {PathAncestors(PathDir(f)) : f \in DOMAIN fsFiles}
                     \cup {PathResolve(RootDir, d) : d \in empty}
  /\ syncState = "start"

\* What a step of a task leaves alone.
StepUnchanged ==
  UNCHANGED <<maxConcurrency, catchErrors, reaperIntervalMillis, runningTasks, runCount,
              items, queueHead, queueTail, size, runId, shutdown,
              shutdownImmediately, runScheduled, reapTimer, stopTimer,
              refused, remote, remove, tmpDir, syncState, hostVars, libCall>>

\* Variant of RemoveEnabled: local-only entries are removed whatever the
\* option says.
RemoveEnabledAlways == TRUE

\* The remove option as the pass reads it.
RemoveEnabled == remove

\* sync(): both listings, then the loop that submits the tasks.
Sync ==
  /\ syncState = "start"
  /\ LET tasks == SyncLoop(getS3List(remote),
                           getDirectoryEntries(fsFiles, fsDirs, RootDir),
                           1, 1, RemoveEnabled)
         Q == IF SubmitAccepted THEN SubmitAll(QueueList, tasks, 1)
                                ELSE QueueList
     IN /\ items' = Q.items
        /\ queueHead' = Q.head
        /\ queueTail' = Q.tail
        /\ size' = Q.size
  /\ syncState' = "done"
  /\ UNCHANGED <<maxConcurrency, catchErrors, reaperIntervalMillis, runningTasks, runCount,
                 runId, shutdown, shutdownImmediately, runScheduled,
                 reapTimer, stopTimer, runs, refused, remote, remove, tmpDir,
                 fsFiles, fsDirs, hostVars, libCall>>

\* The tasks of the pass have drained: the pass has submitted them, none
\* waits in the queue, and the promise of each is settled.
Drained ==
  /\ syncState = "done"
  /\ size = 0
  /\ \A r \in 1..Len(runs) : runs[r].pc \in {"done", "rejected", "unhandled"}

\* executeResync: the resync timer fires after the tasks of the first pass
\* have drained, and sync() runs once more.
Resync ==
  /\ Drained
  /\ LET tasks == SyncLoop(getS3List(remote),
                           getDirectoryEntries(fsFiles, fsDirs, RootDir),
                           1, 1, RemoveEnabled)
         Q == IF SubmitAccepted THEN SubmitAll(QueueList, tasks, 1)
                                ELSE QueueList
     IN /\ items' = Q.items
        /\ queueHead' = Q.head
        /\ queueTail' = Q.tail
        /\ size' = Q.size
  /\ syncState' = "resynced"
  /\ UNCHANGED <<maxConcurrency, catchErrors, reaperIntervalMillis, runningTasks, runCount,
                 runId, shutdown, shutdownImmediately, runScheduled,
                 reapTimer, stopTimer, runs, refused, remote, remove, tmpDir,
                 fsFiles, fsDirs, hostVars, libCall>>

\* The path a task is keyed by and works on.
writeFilePath(r) == PathResolve(RootDir, runs[r].task.rel)

\* Variant of tmpFilePath that writes the body in place.
tmpFilePathInPlace(transformedKey, chunk) == PathResolve(RootDir, transformedKey)

\* The temporary path of a write.
tmpFilePath(transformedKey, chunk) ==
  LET tmpFileName == transformedKey \o <<Dot>> \o chunk \o TmpSuffix
  IN IF tmpDir # None THEN PathResolve(tmpDir[1], tmpFileName)
                      ELSE PathResolve(RootDir, tmpFileName)

\* runs after task r made the call `call' and moved on to step pc.
Moved(r, call, pc) ==
  [runs EXCEPT ![r].pc = pc, ![r].log = Append(@, call)]

\* runs after the call `call' of task r failed with error code `code': the
\* promise of the task is rejected.
Rejected(r, call, code) ==
  [Moved(r, call, "rejected") EXCEPT ![r].err = Some(code)]

\* getS3Object resolves with the body; the temporary path is chosen.
GetS3Object(r) ==
  /\ runs[r].pc = "getS3Object"
  /\ \E chunk \in RandomChunks :
       runs' = [Moved(r, "getS3Object", "mkdir")
                  EXCEPT ![r].tmp = tmpFilePath(runs[r].task.rel, chunk)]
  /\ UNCHANGED <<fsFiles, fsDirs>>
  /\ StepUnchanged

\* fs.promises.mkdir(dir, {recursive: true}): the parent of the target of a
\* write, or the target of a directory key.
Mkdir(r) ==
  /\ runs[r].pc = "mkdir"
  /\ LET isWrite == runs[r].task.op = "write"
         dir == IF isWrite THEN PathDir(writeFilePath(r)) ELSE writeFilePath(r)
     IN IF MkdirAllowed(fsFiles, dir)
        THEN /\ fsDirs' = fsDirs \cup PathAncestors(dir)
             /\ runs' = Moved(r, "mkdir", IF isWrite THEN "writeFile" ELSE "resolved")
        ELSE /\ fsDirs' = fsDirs
             /\ runs' = Rejected(r, "mkdir", IF dir \in DOMAIN fsFiles
                                              THEN "EEXIST" ELSE "ENOTDIR")
  /\ UNCHANGED fsFiles
  /\ StepUnchanged

\* fs.promises.writeFile(tmpFilePath, s3Data), first half: the file is
\* created or truncated.
WriteFileOpen(r) ==
  /\ runs[r].pc = "writeFile"
  /\ LET tmp == runs[r].tmp
     IN IF PathDir(tmp) \in fsDirs /\ tmp \notin fsDirs
        THEN /\ fsFiles' = PutFile(fsFiles, tmp, PartialFile)
             /\ runs' = Moved(r, "writeFile", "writeFileData")
        ELSE /\ fsFiles' = fsFiles
             /\ runs' = Rejected(r, "writeFile", IF tmp \in fsDirs
                                                  THEN "EISDIR" ELSE "ENOENT")
  /\ UNCHANGED fsDirs
  /\ StepUnchanged

\* fs.promises.writeFile, second half: the body is written to the open file.
WriteFileData(r) ==
  /\ runs[r].pc = "writeFileData"
  /\ LET tmp == runs[r].tmp
     IN fsFiles' = IF tmp \in DOMAIN fsFiles
                   THEN PutFile(fsFiles, tmp, FreshFile) ELSE fsFiles
  /\ runs' = [runs EXCEPT ![r].pc = "rename"]
  /\ UNCHANGED fsDirs
  /\ StepUnchanged

\* fs.promises.rename(tmpFilePath, writeFilePath)
Rename(r) ==
  /\ runs[r].pc = "rename"
  /\ LET tmp == runs[r].tmp
         target == writeFilePath(r)
     IN IF tmp \in DOMAIN fsFiles /\ PathDir(target) \in fsDirs
           /\ target \notin fsDirs
        THEN /\ fsFiles' = PutFile(DropFiles(fsFiles, {tmp} \ {target}),
                                   target, fsFiles[tmp])
             /\ runs' = Moved(r, "rename", "resolved")
        ELSE /\ fsFiles' = fsFiles
             /\ runs' = Rejected(r, "rename", IF target \in fsDirs
                                               THEN "EISDIR" ELSE "ENOENT")
  /\ UNCHANGED fsDirs
  /\ StepUnchanged

\* fs.promises.unlink(removeFilePath)
Unlink(r) ==
  /\ runs[r].pc = "unlink"
  /\ LET target == writeFilePath(r)
     IN IF target \in DOMAIN fsFiles
        THEN /\ fsFiles' = DropFiles(fsFiles, {target})
             /\ runs' = Moved(r, "unlink",
                              IF remove /\ PathDir(target) # RootDir
                              THEN "readdir" ELSE "resolved")
        ELSE /\ fsFiles' = fsFiles
             /\ runs' = Rejected(r, "unlink", IF target \in fsDirs
                                               THEN "EISDIR" ELSE "ENOENT")
  /\ UNCHANGED fsDirs
  /\ StepUnchanged

\* fs.promises.readdir(parsedPath.dir) of unlinkFile
ReaddirParent(r) ==
  /\ runs[r].pc = "readdir"
  /\ LET dir == PathDir(writeFilePath(r))
     IN runs' = IF dir \notin fsDirs THEN Rejected(r, "readdir", "ENOENT")
                ELSE Moved(r, "readdir",
                           IF Readdir(fsFiles, fsDirs, dir) = {} THEN "rmdir"
                           ELSE "resolved")
  /\ UNCHANGED <<fsFiles, fsDirs>>
  /\ StepUnchanged

\* fs.promises.rmdir(parsedPath.dir) of unlinkFile
RmdirParent(r) ==
  /\ runs[r].pc = "rmdir"
  /\ LET dir == PathDir(writeFilePath(r))
     IN IF dir \in fsDirs /\ Readdir(fsFiles, fsDirs, dir) = {}
        THEN /\ fsDirs' = fsDirs \ {dir}
             /\ runs' = Moved(r, "rmdir", "resolved")
        ELSE /\ fsDirs' = fsDirs
             /\ runs' = Rejected(r, "rmdir", IF dir \in fsDirs
                                              THEN "ENOTEMPTY" ELSE "ENOENT")
  /\ UNCHANGED fsFiles
  /\ StepUnchanged

\* fs.promises.rmdir(rmDirPath, {recursive: true}): the directory and all
\* below it go; a missing directory is no error.
RmdirRecursive(r) ==
  /\ runs[r].pc = "rmdirRecursive"
  /\ LET target == writeFilePath(r)
     IN IF target \notin DOMAIN fsFiles
        THEN /\ fsFiles' = DropFiles(fsFiles, Below(DOMAIN fsFiles, target))
             /\ fsDirs' = (fsDirs \ Below(fsDirs, target)) \ {target}
             /\ runs' = Moved(r, "rmdir", "resolved")
        ELSE /\ UNCHANGED <<fsFiles, fsDirs>>
             /\ runs' = Rejected(r, "rmdir", "ENOTDIR")
  /\ StepUnchanged

\* runHooks, called by the handler of a fatal process event: the shutdown
\* hooks run, among them the hook of run(), which stops the queue.  (The
\* process exits once the hooks have finished.)
RunHooks ==
  /\ fatal' = TRUE
  /\ shutdown' = TRUE
  /\ shutdownImmediately' = IF shutdown THEN shutdownImmediately ELSE FALSE

\* process.on('unhandledRejection'): the promise of task r was rejected, and
\* the promise submitPromiseTask derives from it has no rejection handler.
UnhandledTaskRejection(r) ==
  /\ runs[r].pc = "rejected"
  /\ runs' = [runs EXCEPT ![r].pc = "unhandled"]
  /\ RunHooks
  /\ UNCHANGED <<maxConcurrency, catchErrors, reaperIntervalMillis, runningTasks, runCount,
                 items, queueHead, queueTail, size, runId, runScheduled,
                 reapTimer, stopTimer, refused, syncVars, snsOptions,
                 requests, serviceVars, libCall>>

\* One pass of the dispatcher over promise tasks: none of them invokes
\* onComplete before it returns, and all finish well within their timeout.
RunPromiseTasks == RunPass(0, {})

NextSync ==
  \/ Sync
  \/ RunPromiseTasks
  \/ \E r \in 1..Len(runs) : GetS3Object(r)
  \/ \E r \in 1..Len(runs) : Mkdir(r)
  \/ \E r \in 1..Len(runs) : WriteFileOpen(r)
  \/ \E r \in 1..Len(runs) : WriteFileData(r)
  \/ \E r \in 1..Len(runs) : Rename(r)
  \/ \E r \in 1..Len(runs) : Unlink(r)
  \/ \E r \in 1..Len(runs) : ReaddirParent(r)
  \/ \E r \in 1..Len(runs) : RmdirParent(r)
  \/ \E r \in 1..Len(runs) : RmdirRecursive(r)
  \/ \E r \in 1..Len(runs) : Complete(r)
  \/ \E r \in 1..Len(runs) : UnhandledTaskRejection(r)

SpecSync == InitSync /\ [][NextSync]_vars

\* A first pass, and a second one once the tasks of the first have drained.
NextResync == NextSync \/ Resync

SpecResync == InitSync /\ [][NextResync]_vars

\* One pass of the reconciler on its own, over every bucket and every local
\* tree of the model.
SameAgeFile == [body |-> "old", mtime |-> 1, size |-> 2]
OlderFile == [body |-> "old", mtime |-> 0, size |-> 2]
FileKinds == {StaleFile, FreshFile, SameAgeFile, OlderFile, PartialFile}
\* The keys the bucket may hold: "c", "d/", "d/a", "/d/a" and "/".
ReconcileKeys == {<<99>>, <<100, Sep>>, <<100, Sep, 97>>,
                  <<Sep, 100, Sep, 97>>, <<Sep>>}
\* The relative paths of the files the tree may hold: "c", "d/a" and "e".
ReconcilePaths == {<<99>>, <<100, Sep, 97>>, <<101>>}

InitReconcile ==
  /\ NoIngress
  /\ libCall = NoCall
  /\ NewQueue(MaxConcurrencyCap)
  /\ remote \in SUBSET ReconcileKeys
  /\ remove \in BOOLEAN
  /\ tmpDir = None
  /\ \E present \in SUBSET ReconcilePaths, empty \in SUBSET LocalDirs :
       /\ fsFiles \in [{PathResolve(RootDir, p) : p \in present} -> FileKinds]
       /\ fsDirs = {RootDir}
                     \cup UNION {PathAncestors(PathDir(f)) : f \in DOMAIN fsFiles}
                     \cup {PathResolve(RootDir, d) : d \in empty}
  /\ syncState = "start"

NextReconcile == Sync

SpecReconcile == InitReconcile /\ [][NextReconcile]_vars

----------------------------------------------------------------------------
\* The file-system operations called on their own, with any relative path.

MaxFsCalls == 2

\* A mirror that holds every file of LocalPaths, and its queue.
InitFsOps ==
  /\ NoIngress
  /\ libCall = NoCall
  /\ NewQueue(MaxConcurrencyCap)
  /\ remote = {}
  /\ remove \in BOOLEAN
  /\ tmpDir = None
  /\ fsFiles = [f \in {PathResolve(RootDir, p) : p \in LocalPaths} |-> StaleFile]
  /\ fsDirs = {RootDir} \cup UNION {PathAncestors(PathDir(f)) : f \in DOMAIN fsFiles}
  /\ syncState = "off"

\* A caller submits the tasks of one file-system operation.
CallFsOp(tasks) ==
  /\ Len(items) < MaxFsCalls
  /\ LET Q == IF SubmitAccepted THEN SubmitAll(QueueList, tasks, 1)
                                ELSE QueueList
     IN /\ items' = Q.items
        /\ queueHead' = Q.head
        /\ queueTail' = Q.tail
        /\ size' = Q.size
  /\ UNCHANGED <<maxConcurrency, catchErrors, reaperIntervalMillis, runningTasks, runCount,
                 runId, shutdown, shutdownImmediately, runScheduled,
                 reapTimer, stopTimer, runs, refused, syncVars, hostVars, libCall>>

CallRmdirRecursive(relativeDirPath) == CallFsOp(rmdirRecursive(relativeDirPath))

CallUnlinkFile(relativeFilePath) == CallFsOp(unlinkFile(relativeFilePath))

NextFsOps ==
  \/ \E rel \in RelDirPaths : CallRmdirRecursive(rel)
  \/ \E rel \in RelFilePaths : CallUnlinkFile(rel)
  \/ RunPromiseTasks
  \/ \E r \in 1..Len(runs) : Unlink(r)
  \/ \E r \in 1..Len(runs) : ReaddirParent(r)
  \/ \E r \in 1..Len(runs) : RmdirParent(r)
  \/ \E r \in 1..Len(runs) : RmdirRecursive(r)
  \/ \E r \in 1..Len(runs) : Complete(r)
  \/ \E r \in 1..Len(runs) : UnhandledTaskRejection(r)

SpecFsOps == InitFsOps /\ [][NextFsOps]_vars

----------------------------------------------------------------------------
\* The SNS ingress (src/snsServer.ts): the default request listener and the
\* default notification listener.

MaxRequests == 1
MaxRecords == 2

\* options.bucket, and the bucket of a record that comes from elsewhere.
Bucket == "bucket"
OtherBucket == "other"

\* "ObjectCreated:", "ObjectRestore:" and "ObjectRemoved:".
ObjectCreated == <<79, 98, 106, 101, 99, 116, 67, 114, 101, 97, 116, 101, 100, 58>>
ObjectRestore == <<79, 98, 106, 101, 99, 116, 82, 101, 115, 116, 111, 114, 101, 58>>
ObjectRemoved == <<79, 98, 106, 101, 99, 116, 82, 101, 109, 111, 118, 101, 100, 58>>
\* The event names of the records: "ObjectCreated:Put",
\* "ObjectRestore:Completed", "ObjectRemoved:Delete" and
\* "s3:ObjectCreated:Put".
EventNames ==
  {ObjectCreated \o <<80, 117, 116>>, ObjectRestore \o <<67, 111, 109, 112, 108, 101, 116, 101, 100>>, ObjectRemoved \o <<68, 101, 108, 101, 116, 101>>,
   <<115, 51, 58>> \o ObjectCreated \o <<80, 117, 116>>}

DEFAULT_MAJOR_EVENT_VERSION == 2
DEFAULT_MINOR_EVENT_VERSION == 1

\* The event versions of the records: "2.1", and "2.0", "2" and "3.1".
SupportedVersions == {<<50, Dot, 49>>}
UnsupportedVersions == {<<50, Dot, 48>>, <<50>>, <<51, Dot, 49>>}

\* The keys of the records: "c" and "d/a".
RecordKeys == {<<99>>, <<100, Sep, 97>>}
\* The filters of the options: prefix "d/" or none, suffix "c" or none.
Prefixes == {None, Some(<<100, Sep>>)}
Suffixes == {None, Some(<<99>>)}

\* The records of a notification: well-formed ones of the configured
\* bucket, one of them with the key "/", ones with an unsupported version
\* or without any (malformed), and ones of another bucket.
RecordValues ==
  [eventName : EventNames, eventVersion : {Some(v) : v \in SupportedVersions},
   bucket : {Bucket}, key : RecordKeys]
  \cup [eventName : {ObjectCreated \o <<80, 117, 116>>},
        eventVersion : {Some(v) : v \in SupportedVersions},
        bucket : {Bucket}, key : {<<Sep>>}]
  \cup [eventName : {ObjectCreated \o <<80, 117, 116>>},
        eventVersion : {Some(v) : v \in UnsupportedVersions} \cup {None},
        bucket : {Bucket}, key : {<<100, Sep, 97>>}]
  \cup [eventName : {ObjectCreated \o <<80, 117, 116>>, ObjectRemoved \o <<68, 101, 108, 101, 116, 101>>},
        eventVersion : {Some(v) : v \in SupportedVersions},
        bucket : {OtherBucket}, key : {<<100, Sep, 97>>}]

RecordLists == UNION {[1..n -> RecordValues] : n \in 0..MaxRecords}

\* The Message of a body: a string without the text "Records", a string with
\* it that is not JSON, or a JSON text with the records.
PlainMessage == [kind |-> "plain", Records |-> <<>>]
MessageValues ==
  {PlainMessage, [kind |-> "malformed", Records |-> <<>>]}
    \cup [kind : {"json"}, Records : RecordLists]

\* The bodies of the requests: not JSON, or an SNS envelope with its type, a
\* valid signature or not, and its Message.
Bodies ==
  {[json |-> FALSE, signed |-> FALSE, Type |-> "Other", Message |-> PlainMessage]}
    \cup [json : {TRUE}, signed : BOOLEAN,
          Type : {"SubscriptionConfirmation", "UnsubscribeConfirmation", "Other"},
          Message : {PlainMessage}]
    \cup [json : {TRUE}, signed : BOOLEAN, Type : {"Notification"},
          Message : MessageValues]

\* Number.parseInt of a string of digits followed by anything: the number the
\* leading digits spell, NaN (None) when there is none.
RECURSIVE ParseIntFrom(_, _, _)
ParseIntFrom(str, i, acc) ==
  IF i <= Len(str) /\ str[i] \in 48..57
  THEN ParseIntFrom(str, i + 1, 10 * acc + (str[i] - 48))
  ELSE acc

ParseInt(str) ==
  IF str # <<>> /\ str[1] \in 48..57 THEN Some(ParseIntFrom(str, 1, 0)) ELSE None

\* Variant of UnsupportedEventVersion that accepts every version.
UnsupportedEventVersionNever(eventVersion) == FALSE

\* The version test of the notification listener: a comparison with NaN is
\* false.
UnsupportedEventVersion(eventVersion) ==
  LET splitEventVersion == SplitFrom(eventVersion, Dot, 1, <<>>)
  IN \/ Len(splitEventVersion) < 2
     \/ ParseInt(splitEventVersion[1]) # Some(DEFAULT_MAJOR_EVENT_VERSION)
     \/ /\ ParseInt(splitEventVersion[2]) # None
        /\ ParseInt(splitEventVersion[2])[1] < DEFAULT_MINOR_EVENT_VERSION

\* key.endsWith(suffix)
EndsWith(s, p) ==
  Len(p) <= Len(s) /\ SubSeq(s, Len(s) - Len(p) + 1, Len(s)) = p

\* The key passes the prefix and the suffix filter of the options.
PassesFilters(key) ==
  /\ snsOptions.prefix # None => StartsWith(key, snsOptions.prefix[1])
  /\ snsOptions.suffix # None => EndsWith(key, snsOptions.suffix[1])

\* What the listener calls for a record that passed the version test and
\* the filters.
RecordTasks(record) ==
  LET transformedKey == applyTransformersToKey(record.key)
  IN IF record.bucket = Bucket
     THEN IF \/ StartsWith(record.eventName, ObjectCreated)
             \/ StartsWith(record.eventName, ObjectRestore)
          THEN writeS3Object(transformedKey)
          ELSE IF StartsWith(record.eventName, ObjectRemoved)
          THEN unlinkFile(transformedKey)
          ELSE <<>>
     ELSE <<>>

\* The loop of the notification listener from record i on, tasks being what
\* it has submitted so far: all it submits, and the error it throws, if any
\* (a record without eventVersion makes eventVersion.split a TypeError).
RECURSIVE Listen(_, _, _)
Listen(Records, i, tasks) ==
  IF i > Len(Records) THEN [tasks |-> tasks, error |-> None]
  ELSE IF Records[i].eventVersion = None
  THEN [tasks |-> tasks, error |-> Some("TypeError")]
  ELSE IF UnsupportedEventVersion(Records[i].eventVersion[1])
  THEN [tasks |-> tasks, error |-> Some("Unsupported event version")]
  ELSE IF ~PassesFilters(Records[i].key)
  THEN Listen(Records, i + 1, tasks)
  ELSE Listen(Records, i + 1, tasks \o RecordTasks(Records[i]))

\* A mirror that holds a file for every key of RecordKeys, its queue, and
\* the ingress.
InitSns ==
  /\ NewQueue(MaxConcurrencyCap)
  /\ remote = RecordKeys
  /\ remove \in BOOLEAN
  /\ tmpDir = None
  /\ fsFiles = [f \in {PathResolve(RootDir, p) : p \in RecordKeys} |-> StaleFile]
  /\ fsDirs = {RootDir} \cup UNION {PathAncestors(PathDir(f)) : f \in DOMAIN fsFiles}
  /\ syncState = "off"
  /\ snsOptions \in [ignoreMessageValidation : BOOLEAN, prefix : Prefixes,
                      suffix : Suffixes]
  /\ requests = <<>>
  /\ fatal = FALSE
  /\ NoService
  /\ libCall = NoCall

\* What a step of the ingress that submits nothing leaves alone.
IngressUnchanged ==
  UNCHANGED <<queueVars, syncVars, snsOptions, fatal, serviceVars, libCall>>

\* The 'end' handler of a request with the given body: the body is parsed;
\* if that fails the request is answered with 500, else the body goes to the
\* validator, or straight on when validation is switched off.
RequestEnd(body) ==
  /\ Len(requests) < MaxRequests
  /\ requests' = Append(requests,
       [body |-> body,
        pc |-> IF ~body.json THEN "answered"
               ELSE IF snsOptions.ignoreMessageValidation THEN "validated"
               ELSE "validating",
        responses |-> IF ~body.json THEN <<500>> ELSE <<>>,
        tasks |-> <<>>, confirmed |-> FALSE, error |-> None])
  /\ IngressUnchanged

\* Variant of Validates that accepts every signature.
ValidatesAlways(body) == TRUE

\* SNS_MESSAGE_VALIDATOR.validate reports no error.
Validates(body) == body.signed

\* validateMessage: the callback of the validator resolves or rejects the
\* promise.
ValidateMessage(q) ==
  /\ requests[q].pc = "validating"
  /\ requests' = IF Validates(requests[q].body)
                 THEN [requests EXCEPT ![q].pc = "validated"]
                 ELSE [requests EXCEPT ![q].pc = "rejected",
                                       ![q].error = Some("ValidationError")]
  /\ IngressUnchanged

\* The fulfilment handler of the request listener, given the validated body:
\* what it submits, whether it confirms a subscription, and the error it
\* throws, if any.
Handled(body) ==
  IF body.Type = "SubscriptionConfirmation"
  THEN [tasks |-> <<>>, confirmed |-> TRUE, error |-> None]
  ELSE IF body.Type = "Notification" /\ body.Message.kind = "malformed"
  THEN [tasks |-> <<>>, confirmed |-> FALSE, error |-> Some("SyntaxError")]
  ELSE IF body.Type = "Notification" /\ body.Message.kind = "json"
  THEN LET L == Listen(body.Message.Records, 1, <<>>)
       IN [tasks |-> L.tasks, confirmed |-> FALSE, error |-> L.error]
  ELSE [tasks |-> <<>>, confirmed |-> FALSE, error |-> None]

\* The fulfilment handler runs: the tasks go to the queue, and the request
\* is answered with 200 unless the handler threw, which rejects its promise.
HandleBody(q) ==
  /\ requests[q].pc = "validated"
  /\ LET H == Handled(requests[q].body)
         Q == IF SubmitAccepted THEN SubmitAll(QueueList, H.tasks, 1)
                                ELSE QueueList
     IN /\ items' = Q.items
        /\ queueHead' = Q.head
        /\ queueTail' = Q.tail
        /\ size' = Q.size
        /\ requests' =
             [requests EXCEPT
                ![q].tasks = H.tasks,
                ![q].confirmed = H.confirmed,
                ![q].error = H.error,
                ![q].pc = IF H.error = None THEN "answered" ELSE "rejected",
                ![q].responses = IF H.error = None THEN Append(@, 200) ELSE @]
  /\ UNCHANGED <<maxConcurrency, catchErrors, reaperIntervalMillis, runningTasks, runCount,
                 runId, shutdown, shutdownImmediately, runScheduled,
                 reapTimer, stopTimer, runs, refused, syncVars, snsOptions,
                 fatal, serviceVars, libCall>>

\* process.on('unhandledRejection'): the promise of the request was rejected
\* by the validator or by its fulfilment handler, and nothing handles it.
UnhandledRequestRejection(q) ==
  /\ requests[q].pc = "rejected"
  /\ requests' = [requests EXCEPT ![q].pc = "unhandled"]
  /\ RunHooks
  /\ UNCHANGED <<maxConcurrency, catchErrors, reaperIntervalMillis, runningTasks, runCount,
                 items, queueHead, queueTail, size, runId, runScheduled,
                 reapTimer, stopTimer, runs, refused, syncVars, snsOptions,
                 serviceVars, libCall>>

NextSns ==
  \/ \E body \in Bodies : RequestEnd(body)
  \/ \E q \in 1..Len(requests) : ValidateMessage(q)
  \/ \E q \in 1..Len(requests) : HandleBody(q)
  \/ \E q \in 1..Len(requests) : UnhandledRequestRejection(q)
  \/ RunPromiseTasks
  \/ \E r \in 1..Len(runs) : GetS3Object(r)
  \/ \E r \in 1..Len(runs) : Mkdir(r)
  \/ \E r \in 1..Len(runs) : WriteFileOpen(r)
  \/ \E r \in 1..Len(runs) : WriteFileData(r)
  \/ \E r \in 1..Len(runs) : Rename(r)
  \/ \E r \in 1..Len(runs) : Unlink(r)
  \/ \E r \in 1..Len(runs) : ReaddirParent(r)
  \/ \E r \in 1..Len(runs) : RmdirParent(r)
  \/ \E r \in 1..Len(runs) : Complete(r)
  \/ \E r \in 1..Len(runs) : UnhandledTaskRejection(r)

SpecSns == InitSns /\ [][NextSns]_vars

----------------------------------------------------------------------------
\* Part 4: run(): the SNS server, the reconciler with its resync timer, the
\* shutdown hooks and the exit of the process.

MaxPasses == 2           \* calls of the inner sync()
MaxStopCalls == 1        \* calls of the StopService that run() returns

syncSvc == <<currentlySyncing, syncTimeout, passesRunning, passesStarted>>
snsSvc == <<httpServer, SubscriptionArn, hasUnsubscribed, snsCalls, snsPending>>
exitSvc == <<shutdownHandlers, exitGroups, exitTimer, exited>>

\* The options of run(): topicArn needs a port, and
\* ignoreUnsubscribeOnShutdown matters with a topicArn only.
ServiceOptions ==
  {o \in [skipInitialSync : BOOLEAN, resyncInterval : BOOLEAN, port : BOOLEAN,
          topicArn : BOOLEAN, ignoreUnsubscribeOnShutdown : BOOLEAN] :
     /\ o.topicArn => o.port
     /\ o.ignoreUnsubscribeOnShutdown => o.topicArn}

\* The SubscriptionArn of the response to Subscribe: "s".
Arn == <<115>>

\* run() has returned: it has registered the hook that stops the queue,
\* startSnsServer has created the server and registered the hook that closes
\* it, and sync() has run up to its first await.
InitService ==
  /\ NewQueue(MaxConcurrencyCap)
  /\ remote = {<<99>>}
  /\ remove = FALSE
  /\ tmpDir = None
  /\ fsFiles = <<>>
  /\ fsDirs = {RootDir}
  /\ snsOptions = [ignoreMessageValidation |-> FALSE, prefix |-> None,
                   suffix |-> None]
  /\ requests = <<>>
  /\ fatal = FALSE
  /\ runOptions \in ServiceOptions
  /\ currentlySyncing = ~runOptions.skipInitialSync
  /\ passesRunning = IF runOptions.skipInitialSync THEN 0 ELSE 1
  /\ passesStarted = passesRunning
  /\ syncTimeout = IF runOptions.skipInitialSync /\ runOptions.resyncInterval
                   THEN "armed" ELSE "unset"
  /\ syncState = IF ~runOptions.skipInitialSync THEN "initial"
                 ELSE IF runOptions.resyncInterval THEN "returned" ELSE "off"
  /\ httpServer = IF runOptions.port THEN "binding" ELSE "off"
  /\ SubscriptionArn = None
  /\ hasUnsubscribed = FALSE
  /\ snsCalls = <<>>
  /\ snsPending = {}
  /\ shutdownHandlers =
       {"queue"} \cup (IF runOptions.port THEN {"server"} ELSE {})
                 \cup (IF syncState = "returned" THEN {"sync"} ELSE {})
  /\ exitGroups = {}
  /\ exitTimer = FALSE
  /\ exited = "no"
  /\ stopCalls = 0
  /\ signalled = FALSE
  /\ libCall = NoCall

\* The inner sync(): both listings, then the loop that submits the tasks.
SubmitPass ==
  LET tasks == SyncLoop(getS3List(remote),
                        getDirectoryEntries(fsFiles, fsDirs, RootDir),
                        1, 1, RemoveEnabled)
      Q == IF SubmitAccepted THEN SubmitAll(QueueList, tasks, 1)
                             ELSE QueueList
  IN /\ items' = Q.items
     /\ queueHead' = Q.head
     /\ queueTail' = Q.tail
     /\ size' = Q.size

\* What the end of a pass leaves alone.
PassUnchanged ==
  UNCHANGED <<maxConcurrency, catchErrors, reaperIntervalMillis, runningTasks, runCount,
              runId, shutdown, shutdownImmediately, runScheduled, reapTimer,
              stopTimer, runs, refused, remote, remove, tmpDir, fsFiles,
              fsDirs, snsOptions, requests, fatal, runOptions, passesStarted,
              snsSvc, exitGroups, exitTimer, exited, stopCalls, signalled, libCall>>

\* The initial pass returns: sync() goes on after `await sync()', arms the
\* resync timer, registers its shutdown hook and returns its StopService.
EndInitialPass ==
  /\ syncState = "initial"
  /\ SubmitPass
  /\ currentlySyncing' = FALSE
  /\ passesRunning' = passesRunning - 1
  /\ syncTimeout' = IF runOptions.resyncInterval THEN "armed" ELSE syncTimeout
  /\ shutdownHandlers' = shutdownHandlers \cup {"sync"}
  /\ syncState' = "returned"
  /\ PassUnchanged

\* Variant of TimeoutWhileSyncing: a timer that stays armed during the pass.
TimeoutWhileSyncingArmed == "armed"

\* The resync timer while executeResync awaits the pass: it has fired, and
\* it is armed again only after the pass.
TimeoutWhileSyncing == "fired"

\* executeResync, the callback of the resync timer, up to its await.
ExecuteResync ==
  /\ syncTimeout = "armed"
  /\ passesStarted < MaxPasses
  /\ IF ~currentlySyncing
     THEN /\ currentlySyncing' = TRUE
          /\ passesRunning' = passesRunning + 1
          /\ passesStarted' = passesStarted + 1
          /\ syncTimeout' = TimeoutWhileSyncing
     ELSE /\ syncTimeout' = "armed"
          /\ UNCHANGED <<currentlySyncing, passesRunning, passesStarted>>
  /\ UNCHANGED <<queueVars, syncVars, snsOptions, requests, fatal, runOptions,
                 snsSvc, exitSvc, stopCalls, signalled, libCall>>

\* executeResync after its await: the pass has returned, and the timer is
\* armed again.
EndResyncPass ==
  /\ syncState = "returned"
  /\ passesRunning > 0
  /\ SubmitPass
  /\ currentlySyncing' = FALSE
  /\ passesRunning' = passesRunning - 1
  /\ syncTimeout' = "armed"
  /\ UNCHANGED <<syncState, shutdownHandlers>>
  /\ PassUnchanged

\* Variant of TopicArnSet: a subscription is made whatever the options say.
TopicArnSetAlways == TRUE

\* options.topicArn is set.
TopicArnSet == runOptions.topicArn

\* The callback of httpServer.listen: the server has bound; Subscribe is sent
\* if a topicArn is configured.
Listening ==
  /\ httpServer = "binding"
  /\ httpServer' = "listening"
  /\ IF TopicArnSet
     THEN /\ snsCalls' = Append(snsCalls, [cmd |-> "Subscribe", arn |-> None])
          /\ snsPending' = snsPending \cup {"Subscribe"}
     ELSE UNCHANGED <<snsCalls, snsPending>>
  /\ UNCHANGED <<queueVars, syncVars, snsOptions, requests, fatal, runOptions,
                 syncSvc, SubscriptionArn, hasUnsubscribed, exitSvc,
                 stopCalls, signalled, libCall>>

\* The response to Subscribe: the SubscriptionArn is stored and the hook
\* that unsubscribes is registered.
SubscribeResponse ==
  /\ "Subscribe" \in snsPending
  /\ snsPending' = snsPending \ {"Subscribe"}
  /\ SubscriptionArn' = Some(Arn)
  /\ shutdownHandlers' = shutdownHandlers \cup {"unsubscribe"}
  /\ UNCHANGED <<queueVars, syncVars, snsOptions, requests, fatal, runOptions,
                 syncSvc, httpServer, hasUnsubscribed, snsCalls, exitGroups,
                 exitTimer, exited, stopCalls, signalled, libCall>>

\* The test of executeUnsubscribeCommand: Unsubscribe is to be sent.
Unsubscribes ==
  /\ ~runOptions.ignoreUnsubscribeOnShutdown
  /\ SubscriptionArn # None
  /\ ~hasUnsubscribed

\* executeUnsubscribeCommand
executeUnsubscribeCommand ==
  IF Unsubscribes
  THEN /\ hasUnsubscribed' = TRUE
       /\ snsCalls' = Append(snsCalls,
                             [cmd |-> "Unsubscribe", arn |-> SubscriptionArn])
       /\ snsPending' = snsPending \cup {"Unsubscribe"}
  ELSE UNCHANGED <<hasUnsubscribed, snsCalls, snsPending>>

\* closeServerPromise: close() is called on a server that is listening.
closeServerPromise ==
  httpServer' = IF httpServer = "listening" THEN "closing" ELSE httpServer

\* clearTimeout(timeout) of sync(): it cancels a timer that has not fired.
ClearTimeout ==
  syncTimeout' = IF syncTimeout = "armed" THEN "cleared" ELSE syncTimeout

\* queue.stop()
QueueStop ==
  /\ shutdown' = TRUE
  /\ shutdownImmediately' = IF shutdown THEN shutdownImmediately ELSE FALSE

\* What stopping leaves alone.
StopUnchanged ==
  UNCHANGED <<maxConcurrency, catchErrors, reaperIntervalMillis, runningTasks, runCount,
              items, queueHead, queueTail, size, runId, runScheduled,
              reapTimer, stopTimer, runs, refused, syncVars, snsOptions,
              requests, fatal, runOptions, currentlySyncing, passesRunning,
              passesStarted, SubscriptionArn, libCall>>

\* The StopService that run() returns, available once startSnsServer and
\* sync() have returned theirs: it calls both and stops the queue.
StopService ==
  /\ stopCalls < MaxStopCalls
  /\ syncState \in {"off", "returned"}
  /\ stopCalls' = stopCalls + 1
  /\ IF runOptions.port
     THEN executeUnsubscribeCommand /\ closeServerPromise
     ELSE UNCHANGED <<hasUnsubscribed, snsCalls, snsPending, httpServer>>
  /\ IF syncState = "returned" THEN ClearTimeout ELSE UNCHANGED syncTimeout
  /\ QueueStop
  /\ UNCHANGED <<exitSvc, signalled>>
  /\ StopUnchanged

\* The loop of runHooks: every registered hook is called, and the hooks that
\* were called are removed.
RunShutdownHandlers ==
  /\ IF "queue" \in shutdownHandlers THEN QueueStop
     ELSE UNCHANGED <<shutdown, shutdownImmediately>>
  /\ IF "server" \in shutdownHandlers THEN closeServerPromise
     ELSE UNCHANGED httpServer
  /\ IF "sync" \in shutdownHandlers THEN ClearTimeout
     ELSE UNCHANGED syncTimeout
  /\ IF "unsubscribe" \in shutdownHandlers THEN executeUnsubscribeCommand
     ELSE UNCHANGED <<hasUnsubscribed, snsCalls, snsPending>>
  /\ shutdownHandlers' = {}

\* The promises that the hooks return unsettled: the one of a server that
\* has to close, and the one of an Unsubscribe that is sent.
HookPromises ==
  (IF "server" \in shutdownHandlers /\ httpServer = "listening"
   THEN {"server"} ELSE {})
  \cup (IF "unsubscribe" \in shutdownHandlers /\ Unsubscribes
        THEN {"unsubscribe"} ELSE {})

\* runHooks, called by the handler of a signal or of an uncaught failure: the
\* exit timer is set, every registered hook runs, and the process exits once
\* the promises that the hooks returned are settled.
Signal ==
  /\ shutdownHandlers # {}
  /\ signalled' = TRUE
  /\ exitTimer' = TRUE
  /\ RunShutdownHandlers
  /\ exitGroups' = exitGroups \cup {HookPromises}
  /\ UNCHANGED <<exited, stopCalls>>
  /\ StopUnchanged

\* The callback of httpServer.close: the server is closed, and the promises
\* of closeServerPromise are resolved.
ServerClosed ==
  /\ httpServer = "closing"
  /\ httpServer' = "closed"
  /\ exitGroups' = {g \ {"server"} : g \in exitGroups}
  /\ UNCHANGED <<queueVars, syncVars, snsOptions, requests, fatal, runOptions,
                 syncSvc, SubscriptionArn, hasUnsubscribed, snsCalls,
                 snsPending, shutdownHandlers, exitTimer, exited, stopCalls,
                 signalled, libCall>>

\* The response to Unsubscribe, or its failure, which is caught and logged.
UnsubscribeResponse ==
  /\ "Unsubscribe" \in snsPending
  /\ snsPending' = snsPending \ {"Unsubscribe"}
  /\ exitGroups' = {g \ {"unsubscribe"} : g \in exitGroups}
  /\ UNCHANGED <<queueVars, syncVars, snsOptions, requests, fatal, runOptions,
                 syncSvc, httpServer, SubscriptionArn, hasUnsubscribed,
                 snsCalls, shutdownHandlers, exitTimer, exited, stopCalls,
                 signalled, libCall>>

\* process.exit(exitCode): the 'exit' handler calls runHooks once more, which
\* calls the hooks registered since; nothing asynchronous runs any more.
Exit(cause) ==
  /\ exited' = cause
  /\ RunShutdownHandlers
  /\ UNCHANGED <<exitGroups, exitTimer, stopCalls, signalled>>
  /\ StopUnchanged

\* Promise.all(promises).then(() => process.exit(exitCode)) of runHooks
ExitAfterHooks == exited = "no" /\ {} \in exitGroups /\ Exit("hooks")

\* The callback of the setTimeout of runHooks
ExitOnTimeout == exitTimer /\ Exit("timeout")

\* The process has not exited, and no exit is due: the callback of
\* Promise.all in runHooks is a microtask, which runs before any other timer
\* or callback once every promise of a call of runHooks is settled.
Alive == exited = "no" /\ {} \notin exitGroups

NextService ==
  \/ Alive /\ EndInitialPass
  \/ Alive /\ ExecuteResync
  \/ Alive /\ EndResyncPass
  \/ Alive /\ Listening
  \/ Alive /\ SubscribeResponse
  \/ Alive /\ StopService
  \/ Alive /\ Signal
  \/ Alive /\ ServerClosed
  \/ Alive /\ UnsubscribeResponse
  \/ ExitAfterHooks
  \/ Alive /\ ExitOnTimeout
  \/ Alive /\ RunPromiseTasks
  \/ \E r \in 1..Len(runs) : Alive /\ GetS3Object(r)
  \/ \E r \in 1..Len(runs) : Alive /\ Mkdir(r)
  \/ \E r \in 1..Len(runs) : Alive /\ WriteFileOpen(r)
  \/ \E r \in 1..Len(runs) : Alive /\ WriteFileData(r)
  \/ \E r \in 1..Len(runs) : Alive /\ Rename(r)
  \/ \E r \in 1..Len(runs) : Alive /\ Complete(r)

SpecService == InitService /\ [][NextService]_vars

----------------------------------------------------------------------------
\* run() with a port and without reconciler: the ingress serves requests
\* while the service runs and while it shuts down.

\* A record of the configured bucket: "ObjectCreated:Put" of the key "c".
CreatedRecord ==
  [eventName |-> ObjectCreated \o <<80, 117, 116>>,
   eventVersion |-> Some(<<50, Dot, 49>>), bucket |-> Bucket, key |-> <<99>>]

\* The bodies of the requests: validly signed envelopes, a notification with
\* the record or with a plain message, or a subscription confirmation.
ServeBodies ==
  [json : {TRUE}, signed : {TRUE}, Type : {"Notification"},
   Message : {PlainMessage, [kind |-> "json", Records |-> <<CreatedRecord>>]}]
    \cup {[json |-> TRUE, signed |-> TRUE, Type |-> "SubscriptionConfirmation",
           Message |-> PlainMessage]}

InitServe ==
  /\ InitService
  /\ runOptions.port
  /\ runOptions.skipInitialSync
  /\ ~runOptions.resyncInterval

\* A request arrives at the listening server and its 'end' handler runs.
Receive(body) == httpServer = "listening" /\ RequestEnd(body)

\* The callback of httpServer.close, which runs once the connections of the
\* requests in flight have ended.
ServerClosedIdle ==
  /\ \A q \in 1..Len(requests) : requests[q].pc = "answered"
  /\ ServerClosed

NextServe ==
  \/ Alive /\ Listening
  \/ Alive /\ SubscribeResponse
  \/ Alive /\ StopService
  \/ Alive /\ Signal
  \/ Alive /\ ServerClosedIdle
  \/ Alive /\ UnsubscribeResponse
  \/ ExitAfterHooks
  \/ Alive /\ ExitOnTimeout
  \/ \E body \in ServeBodies : Alive /\ Receive(body)
  \/ \E q \in 1..Len(requests) : Alive /\ ValidateMessage(q)
  \/ \E q \in 1..Len(requests) : Alive /\ HandleBody(q)
  \/ Alive /\ RunPromiseTasks
  \/ \E r \in 1..Len(runs) : Alive /\ GetS3Object(r)
  \/ \E r \in 1..Len(runs) : Alive /\ Mkdir(r)
  \/ \E r \in 1..Len(runs) : Alive /\ WriteFileOpen(r)
  \/ \E r \in 1..Len(runs) : Alive /\ WriteFileData(r)
  \/ \E r \in 1..Len(runs) : Alive /\ Rename(r)
  \/ \E r \in 1..Len(runs) : Alive /\ Complete(r)

SpecServe == InitServe /\ [][NextServe]_vars

----------------------------------------------------------------------------
\* Part 5: library functions called on their own.

MaxPages == 3            \* pages of a listing

\* What a library function called on its own leaves alone.
CallUnchanged == UNCHANGED <<queueVars, syncVars, hostVars>>

\* The keys of the listed bucket: "c", "/c", "d/a" and "/d/a".
ListKeys == {<<99>>, <<Sep, 99>>, <<100, Sep, 97>>, <<Sep, 100, Sep, 97>>}

\* options.suffix: not set, or "a".
ListSuffixes == {None, Some(<<97>>)}

\* S3 lists keys in UTF-8 binary order.
StrictlyIncreasing(q) ==
  \A i \in 1..(Len(q) - 1) : compareStringsUtf8BinaryOrder(q[i], q[i + 1]) < 0

\* The keys of the pages from page n on, in the order S3 sends them; a page
\* without keys has no Contents (None).
RECURSIVE PageKeys(_, _)
PageKeys(pages, n) ==
  IF n > Len(pages) THEN <<>>
  ELSE (IF pages[n] = None THEN <<>> ELSE pages[n][1]) \o PageKeys(pages, n + 1)

\* The responses to ListObjectsV2: up to MaxPages pages, each with Contents
\* or without, every page but the last with a NextContinuationToken.
PageLists ==
  LET contents == {q \in UNION {[1..n -> ListKeys] : n \in 1..Cardinality(ListKeys)} :
                     StrictlyIncreasing(q)}
      page == {None} \cup {Some(q) : q \in contents}
  IN {pages \in UNION {[1..n -> page] : n \in 1..MaxPages} :
        StrictlyIncreasing(PageKeys(pages, 1))}

\* The for loop of getS3List over Contents from element i on: a key that does
\* not end with the suffix is skipped, a key whose transformed key is empty
\* or "/" is ignored, and any other key is stored under its transformed key.
RECURSIVE Accumulate(_, _, _, _)
Accumulate(allBucketKeys, Contents, suffix, i) ==
  IF i > Len(Contents) THEN allBucketKeys
  ELSE LET Key == Contents[i]
           transformedKey == applyTransformersToKey(Key)
       IN IF suffix # None /\ ~EndsWith(Key, suffix[1])
          THEN Accumulate(allBucketKeys, Contents, suffix, i + 1)
          ELSE IF transformedKey \in {<<>>, <<Sep>>}
          THEN Accumulate(allBucketKeys, Contents, suffix, i + 1)
          ELSE Accumulate(
                 [t \in DOMAIN allBucketKeys \cup {transformedKey} |->
                    IF t = transformedKey THEN Key ELSE allBucketKeys[t]],
                 Contents, suffix, i + 1)

\* The state of a call of getS3List at its first await.
ListCalls ==
  [fn : {"getS3List"}, pages : PageLists, suffix : ListSuffixes,
   req : {1}, sent : {1}, allBucketKeys : {<<>>}, log : {<<>>},
   list : {None}]

\* getS3List is called: the first request is sent.
InitList ==
  /\ NoIngress
  /\ libCall \in ListCalls
  /\ NewQueue(MaxConcurrencyCap)
  /\ remote = {}
  /\ remove = FALSE
  /\ tmpDir = None
  /\ fsFiles = <<>>
  /\ fsDirs = {}
  /\ syncState = "off"

\* One iteration of the while loop of getS3List: the awaited page arrives,
\* the next request is sent if the page has a token, and the loop is left if
\* the page has no Contents; otherwise its keys are accumulated.
ListPage ==
  /\ libCall.fn = "getS3List"
  /\ libCall.list = None
  /\ libCall.req # 0
  /\ LET n == libCall.req
         resp == libCall.pages[n]
         token == n < Len(libCall.pages)
         sends == IF token THEN <<[ev |-> "send", page |-> n + 1]>> ELSE <<>>
     IN libCall' =
          IF resp = None
          THEN [libCall EXCEPT !.req = 0,
                               !.sent = IF token THEN @ + 1 ELSE @,
                               !.log = @ \o sends]
          ELSE [libCall EXCEPT
                  !.req = IF token THEN n + 1 ELSE 0,
                  !.sent = IF token THEN @ + 1 ELSE @,
                  !.log = @ \o sends \o <<[ev |-> "process", page |-> n]>>,
                  !.allBucketKeys =
                     Accumulate(@, resp[1], libCall.suffix, 1)]
  /\ CallUnchanged

\* The end of getS3List: the stored objects are pushed to a list, which is
\* sorted by Key and returned.
ListReturn ==
  /\ libCall.fn = "getS3List"
  /\ libCall.list = None
  /\ libCall.req = 0
  /\ LET all == libCall.allBucketKeys
         keys == SortedList({all[t] : t \in DOMAIN all})
     IN libCall' =
          [libCall EXCEPT
             !.list = Some([i \in 1..Len(keys) |->
                              [Key |-> keys[i],
                               transformedKey |->
                                 applyTransformersToKey(keys[i])]])]
  /\ CallUnchanged

NextList == ListPage \/ ListReturn

SpecList == InitList /\ [][NextList]_vars

MaxKeyLen == 3           \* length of the keys handed to a transformer

\* The characters of the keys handed to a transformer: "/", "\", ":", "A",
\* "Z" and "c".
TransformChars == {Sep, Backslash, Colon, 65, 90, 99}

TransformKeys == UNION {[1..n -> TransformChars] : n \in 0..MaxKeyLen}

\* removeRootDirCharsFromS3Key is about to be called with a key.
InitTransform ==
  /\ NoIngress
  /\ libCall \in [fn : {"removeRootDirCharsFromS3Key"}, key : TransformKeys,
                  once : {None}, twice : {None}]
  /\ NewQueue(MaxConcurrencyCap)
  /\ remote = {}
  /\ remove = FALSE
  /\ tmpDir = None
  /\ fsFiles = <<>>
  /\ fsDirs = {}
  /\ syncState = "off"

\* removeRootDirCharsFromS3Key(key)
Transform ==
  /\ libCall.fn = "removeRootDirCharsFromS3Key"
  /\ libCall.once = None
  /\ libCall' = [libCall EXCEPT
                   !.once = Some(removeRootDirCharsFromS3Key(libCall.key))]
  /\ CallUnchanged

\* removeRootDirCharsFromS3Key applied to its own result.
TransformAgain ==
  /\ libCall.fn = "removeRootDirCharsFromS3Key"
  /\ libCall.once # None
  /\ libCall.twice = None
  /\ libCall' = [libCall EXCEPT
                   !.twice = Some(removeRootDirCharsFromS3Key(libCall.once[1]))]
  /\ CallUnchanged

NextTransform == Transform \/ TransformAgain

SpecTransform == InitTransform /\ [][NextTransform]_vars

----------------------------------------------------------------------------
\* writeS3Object and unlinkFile called with keys that hold ".." segments,
\* as the notification listener calls them.

\* The mirror root "/r" next to a directory "/s" that is not part of it.
InitKeyPaths ==
  /\ NoIngress
  /\ libCall = NoCall
  /\ NewQueue(MaxConcurrencyCap)
  /\ remote = {}
  /\ remove \in BOOLEAN
  /\ tmpDir \in {None, Some(TmpDirPath)}
  /\ \E present \in SUBSET {RootDir \o <<Sep, 99>>, <<Sep, 115, Sep, 120>>} :
       fsFiles = [f \in present |-> StaleFile]
  /\ fsDirs = {RootDir, <<Sep, 115>>}
                \cup (IF tmpDir # None THEN {tmpDir[1]} ELSE {})
  /\ syncState = "off"

CallWriteS3Object(Key) == CallFsOp(writeS3Object(applyTransformersToKey(Key)))

CallUnlinkKey(Key) == CallUnlinkFile(applyTransformersToKey(Key))

NextKeyPaths ==
  \/ \E Key \in DotDotKeys : CallWriteS3Object(Key)
  \/ \E Key \in DotDotKeys : CallUnlinkKey(Key)
  \/ RunPromiseTasks
  \/ \E r \in 1..Len(runs) : GetS3Object(r)
  \/ \E r \in 1..Len(runs) : Mkdir(r)
  \/ \E r \in 1..Len(runs) : WriteFileOpen(r)
  \/ \E r \in 1..Len(runs) : WriteFileData(r)
  \/ \E r \in 1..Len(runs) : Rename(r)
  \/ \E r \in 1..Len(runs) : Unlink(r)
  \/ \E r \in 1..Len(runs) : ReaddirParent(r)
  \/ \E r \in 1..Len(runs) : RmdirParent(r)
  \/ \E r \in 1..Len(runs) : Complete(r)
  \/ \E r \in 1..Len(runs) : UnhandledTaskRejection(r)

SpecKeyPaths == InitKeyPaths /\ [][NextKeyPaths]_vars

----------------------------------------------------------------------------
\* Vocabulary of the properties.

Runs == 1..Len(runs)

\* The task of runs[r] is running: started, completion callback not invoked.
Running(r) == runs[r].calls = 0

\* The task of runs[r] is running and its timeout, if any, has not elapsed.
RunningUnexpired(r) == Running(r) /\ ~Expired(runs[r].expiration, Now)

\* The task of runs[r] holds the running-task entry of its key.
HoldsSlot(r) == runningTasks[runs[r].key].id = runs[r].id

\* Item n has been started.
Started(n) == \E r \in Runs : runs[r].item = n

\* The partition key item n was submitted with.
KeyOf(n) ==
  IF Started(n) THEN runs[CHOOSE r \in Runs : runs[r].item = n].key
  ELSE items[n].key

\* C1: at most one non-expired task per key is running: every running task
\* whose timeout has not elapsed (or that has none) holds the running-task
\* entry of its key, so a task is started for a key only when the key has no
\* entry or the entry has expired, and an entry without expiration is given
\* up only when its own task completes.
C1_OneUnexpiredTaskPerKey ==
  /\ \A r \in Runs : RunningUnexpired(r) => HoldsSlot(r)
  /\ \A r1, r2 \in Runs :
       (r1 # r2 /\ runs[r1].key = runs[r2].key)
         => ~(RunningUnexpired(r1) /\ RunningUnexpired(r2))

\* C1 witness: a key is busy with an unexpired task and a later submission
\* for the same key waits in the queue, while an older task of that key that
\* outlived its timeout is still running.
C1_Witness ==
  \E r1, r2 \in Runs :
    /\ r1 < r2 /\ runs[r1].key = runs[r2].key
    /\ Running(r1) /\ RunningUnexpired(r2)
    /\ \E n \in 1..Len(items) : ~Started(n) /\ items[n].key = runs[r2].key

\* C2: per key, tasks are started in submission order: when a task has been
\* started, every task submitted earlier for the same key was started
\* before it.
C2_FifoPerKey ==
  \A r \in Runs : \A n \in 1..Len(items) :
    (n < runs[r].item /\ KeyOf(n) = runs[r].key)
      => \E r0 \in Runs : r0 < r /\ runs[r0].item = n

C5_ReleasedWithinReaperInterval ==
  \A k \in Keys :
    (runningTasks[k] # NoTask /\ runningTasks[k].expiration # None)
      => Now - runningTasks[k].expiration[1] <= reaperIntervalMillis

\* C6: a completion callback that is invoked after its task lost its entry
\* (evicted by the reaper or replaced in place), or that is invoked again,
\* leaves the running-task table and runCount as they are.
C6_StaleCallbackIgnored ==
  [][\A r \in Runs :
       (/\ Len(runs') = Len(runs)
        /\ runs'[r].calls = runs[r].calls + 1
        /\ (runs[r].calls >= 1 \/ ~HoldsSlot(r)))
         => (runningTasks' = runningTasks /\ runCount' = runCount)]_vars

\* C6 witness: a callback was invoked while a later task held its key, it
\* was invoked twice, and the later task still holds the key.
C6_Witness ==
  \E r1, r2 \in Runs :
    /\ r1 < r2 /\ runs[r1].key = runs[r2].key
    /\ runs[r1].late /\ runs[r1].calls = 2
    /\ Running(r2) /\ HoldsSlot(r2)

\* C7 as stated: no two mutations of the same path (tasks of the same key
\* whose completion callback has not been invoked) are ever in flight.
C7_OneMutationPerPath ==
  \A r1, r2 \in Runs :
    (r1 # r2 /\ runs[r1].key = runs[r2].key) => ~(Running(r1) /\ Running(r2))

\* C7 amended: two mutations of the same path are in flight at once only
\* when the earlier one has outlived its task timeout.
C7_OneMutationPerPathUnlessTimedOut ==
  \A r1, r2 \in Runs :
    (r1 < r2 /\ runs[r1].key = runs[r2].key /\ Running(r1) /\ Running(r2))
      => Expired(runs[r1].expiration, Now)

\* C7 witness: two tasks of one key are in flight, the earlier timed out.
C7_Witness ==
  \E r1, r2 \in Runs :
    /\ r1 < r2 /\ runs[r1].key = runs[r2].key
    /\ Running(r1) /\ Running(r2) /\ HoldsSlot(r2)

\* C10: once shutdownImmediately is set it stays set and no further task is
\* started; the step that sets it leaves the running tasks alone.
C10_NoStartAfterImmediateStop ==
  [][/\ shutdownImmediately
          => (shutdownImmediately' /\ Len(runs') = Len(runs))
     /\ (~shutdownImmediately /\ shutdownImmediately')
          => (runningTasks' = runningTasks /\ runCount' = runCount
              /\ runs' = runs)]_vars

\* C10 witness: immediate shutdown reached through the stop timeout, with a
\* task still waiting, a task still running, and the dispatcher at rest.
C10_Witness ==
  /\ shutdownImmediately
  /\ size > 0
  /\ \E r \in Runs : Running(r) /\ HoldsSlot(r)
  /\ ~runScheduled

\* stop(false) without timeout is in effect.
GracefulStop == shutdown /\ ~shutdownImmediately /\ stopTimer = None

\* Every accepted submission has been started.
AllStarted == \A n \in 1..Len(items) : Started(n)

\* C9: after stop(false) a submit is refused and leaves the queue as it is,
\* every task accepted before the stop is eventually started (checked under
\* SpecQueueDrain, where every started task eventually invokes its completion
\* callback), and the dispatcher then stops rescheduling itself for good.
C9_GracefulDrain ==
  /\ [][shutdown => /\ Len(items') = Len(items)
                    /\ refused' # refused =>
                         UNCHANGED <<items, queueHead, queueTail, size,
                                     runningTasks, runCount, runs>>]_vars
  /\ [][(shutdown /\ ~runScheduled) => ~runScheduled']_vars
  /\ [](GracefulStop => <>(AllStarted /\ ~runScheduled))

\* C9 witness: a graceful stop arrived while tasks were waiting for a busy
\* key, a later submit was refused, and the queue has drained.
C9_Witness ==
  /\ GracefulStop
  /\ refused > 0
  /\ Len(items) = MaxDrainSubmits
  /\ \A n \in 1..Len(items) : KeyOf(n) = <<107, 49>>
  /\ AllStarted
  /\ ~runScheduled

\* The regular files of the local tree, relative to the mirror root.
LocalTree ==
  {getRelativePathToRootDir(RootDir, p) : p \in Below(DOMAIN fsFiles, RootDir)}

\* The transformed, filtered keys of the bucket that name objects.
Project(bucket) ==
  LET s3List == getS3List(bucket)
  IN {s3List[i].transformedKey : i \in {j \in 1..Len(s3List) :
                                   ~keyIsDirectory(s3List[j].transformedKey)}}

\* C4: once the tasks of a reconciliation pass have drained, the regular
\* files of the local tree are the projected keys of the bucket when remove
\* is set, and include them when it is not.
C4_ReconciledTree ==
  Drained => IF remove THEN LocalTree = Project(remote)
                       ELSE Project(remote) \subseteq LocalTree

\* The calls of a write task, in the order the claim gives.
WriteSteps == <<"getS3Object", "mkdir", "writeFile", "rename">>

\* The runs that write an object to a file.
Writes == {r \in Runs : runs[r].task.op = "write"}

\* C8: the calls of a write are a prefix of fetch, mkdir of the parent,
\* writeFile of the temporary path, rename; the target never holds a partly
\* written body; and once the write has succeeded all four calls were made
\* and its temporary file is gone.
C8_AtomicWrite ==
  \A r \in Writes :
    /\ Len(runs[r].log) <= Len(WriteSteps)
    /\ runs[r].log = SubSeq(WriteSteps, 1, Len(runs[r].log))
    /\ writeFilePath(r) \in DOMAIN fsFiles
         => fsFiles[writeFilePath(r)].body \in {"old", "new"}
    /\ runs[r].pc \in {"resolved", "done"}
         => /\ runs[r].log = WriteSteps
            /\ runs[r].tmp \notin DOMAIN fsFiles
            /\ fsFiles[writeFilePath(r)].body = "new"

\* C8 witness: one write has completed and left the new body at its target,
\* while another has its temporary file half written beside an old target.
C8_Witness ==
  \E r1, r2 \in Writes :
    /\ runs[r1].pc = "done"
    /\ runs[r1].log = WriteSteps
    /\ runs[r1].tmp \notin DOMAIN fsFiles
    /\ fsFiles[writeFilePath(r1)].body = "new"
    /\ runs[r2].pc = "writeFileData"
    /\ runs[r2].tmp \in DOMAIN fsFiles
    /\ fsFiles[runs[r2].tmp].body = "partial"
    /\ writeFilePath(r2) \in DOMAIN fsFiles
    /\ fsFiles[writeFilePath(r2)].body = "old"

----------------------------------------------------------------------------
\* The tasks a pass has submitted: those still queued and those started.
SubmittedTasks ==
  {items[n].task : n \in {m \in 1..Len(items) : items[m] # DeadItem}}
    \cup {runs[r].task : r \in Runs}

\* The files of the local tree the bucket has no object for.
LocalOnly ==
  {p \in LocalPaths : PathResolve(RootDir, p) \in DOMAIN fsFiles /\ p \notin remote}

\* C11: with remove unset, a reconciliation pass submits no task that
\* unlinks a file and none that removes a directory, whatever the bucket
\* and the local tree hold.
C11_NoRemovalSubmitted ==
  ~remove => \A t \in SubmittedTasks : t.op \notin {"unlink", "rmdir"}

\* C11 witness: remove is unset, the pass is over, the tree holds a file
\* the bucket lacks, and the pass did submit a write.
C11_Witness ==
  /\ ~remove
  /\ syncState = "done"
  /\ LocalOnly # {}
  /\ \E t \in SubmittedTasks : t.op = "write"

\* C13: no recursive removal is submitted for a path that resolves to the
\* mirror root or to the root of the file system, whatever relative path
\* rmdirRecursive is given, and the mirror root stays in place, also when
\* unlinkFile prunes the parent of the file it removed.
C13_RootNeverRemoved ==
  /\ \A t \in SubmittedTasks :
       t.op = "rmdir" => PathResolve(RootDir, t.rel) \notin {RootDir, <<Sep>>}
  /\ RootDir \in fsDirs

\* The tasks the step submits: the queue items it allocates.
NewTasks == {items'[n].task : n \in (Len(items) + 1)..Len(items')}

\* C14: the second of two passes in a row, the tasks of the first drained
\* and neither the bucket nor the local tree changed from outside, submits
\* no write.
C14_SecondPassWritesNothing ==
  [][Resync => \A t \in NewTasks : t.op \notin {"write", "mkdir"}]_vars

\* isAcceptableError of errors.ts, on the name or code of the error.
isAcceptableError(code) ==
  code \in {"NoSuchKey", "ENOENT", "ENOTEMPTY", "EISDIR", "EEXIST"}

\* C20: while every failure inside a file task was an acceptable one, each
\* failed task has been caught at the task boundary instead of surfacing as
\* an unhandled rejection, no failed task still holds the slot of its key
\* once its failure has been dealt with, and no shutdown was triggered.
C20_AcceptableFailureIsNoOp ==
  (\A r \in Runs : runs[r].err # None => isAcceptableError(runs[r].err[1]))
    => /\ ~fatal
       /\ ~shutdown
       /\ \A r \in Runs : runs[r].err # None
            => runs[r].pc # "unhandled" /\ (runs[r].pc = "failed" => ~HoldsSlot(r))

----------------------------------------------------------------------------
\* The ingress.

Requests == 1..Len(requests)

\* Request q carried a notification with records, and its fulfilment
\* handler has run.
HandledNotification(q) ==
  /\ requests[q].body.json
  /\ requests[q].body.Type = "Notification"
  /\ requests[q].body.Message.kind = "json"
  /\ requests[q].pc \in {"answered", "rejected", "unhandled"}
  /\ requests[q].error # Some("ValidationError")

\* The record is well-formed and its version is supported.
VersionSupported(record) ==
  /\ record.eventVersion # None
  /\ record.eventVersion[1] \in SupportedVersions

\* The record is of the configured bucket, passes the filters and has a
\* supported version.
Dispatchable(record) ==
  /\ VersionSupported(record)
  /\ record.bucket = Bucket
  /\ PassesFilters(record.key)

\* The action due for a dispatchable record.
ExpectedAction(record) ==
  IF \/ StartsWith(record.eventName, ObjectCreated)
     \/ StartsWith(record.eventName, ObjectRestore)
  THEN <<[op |-> "write", rel |-> applyTransformersToKey(record.key)]>>
  ELSE IF StartsWith(record.eventName, ObjectRemoved)
  THEN <<[op |-> "unlink", rel |-> applyTransformersToKey(record.key)]>>
  ELSE <<>>

\* The actions due for the records from record i on, in record order.
RECURSIVE ExpectedTasks(_, _)
ExpectedTasks(Records, i) ==
  IF i > Len(Records) THEN <<>>
  ELSE (IF Dispatchable(Records[i]) THEN ExpectedAction(Records[i]) ELSE <<>>)
         \o ExpectedTasks(Records, i + 1)

\* The files and directories of the mirror before the first request.
InitialFiles == {PathResolve(RootDir, p) : p \in RecordKeys}
InitialDirs == {RootDir} \cup UNION {PathAncestors(PathDir(f)) : f \in InitialFiles}

\* C12: with remove unset no file and no directory of the mirror is removed
\* when the ingress is notified that an object was removed.
C12_NothingRemovedUnlessRemove ==
  ~remove => /\ InitialFiles \subseteq DOMAIN fsFiles
             /\ InitialDirs \subseteq fsDirs

\* C15: the listener submits, in record order, exactly the action due for
\* each record of the configured bucket that passes the filters and has a
\* supported version, and nothing for any other record.
C15_OneActionPerRecord ==
  \A q \in Requests :
    HandledNotification(q)
      => requests[q].tasks = ExpectedTasks(requests[q].body.Message.Records, 1)

\* C16: when the first record the listener cannot process has one of the
\* unsupported versions, the listener has raised `Unsupported event version'
\* and has submitted only the actions of the records before it.
C16_UnsupportedVersionRejected ==
  \A q \in Requests :
    HandledNotification(q) =>
      LET Records == requests[q].body.Message.Records
      IN \A i \in 1..Len(Records) :
           (/\ Records[i].eventVersion # None
            /\ Records[i].eventVersion[1] \in UnsupportedVersions
            /\ \A j \in 1..(i - 1) : VersionSupported(Records[j]))
             => /\ requests[q].error = Some("Unsupported event version")
                /\ requests[q].responses = <<>>
                /\ requests[q].tasks
                     = ExpectedTasks(SubSeq(Records, 1, i - 1), 1)

\* C16 witness: the second record of a notification has an unsupported
\* version; the listener dispatched the first and then raised the error.
C16_Witness ==
  \E q \in Requests :
    /\ HandledNotification(q)
    /\ Len(requests[q].body.Message.Records) = 2
    /\ requests[q].body.Message.Records[2].eventVersion # None
    /\ requests[q].body.Message.Records[2].eventVersion[1] \in UnsupportedVersions
    /\ requests[q].error = Some("Unsupported event version")
    /\ Len(requests[q].tasks) = 1

\* Some record of the list fails at record level: it is malformed, has an
\* unsupported version or comes from another bucket.
HasRecordFailure(Records) ==
  \E i \in 1..Len(Records) :
    ~VersionSupported(Records[i]) \/ Records[i].bucket # Bucket

\* C17: a notification with a record that fails at record level is still
\* answered, the actions of its other records are all submitted, and its
\* handling triggers no shutdown.
C17_RecordFailureOnlySkips ==
  \A q \in Requests :
    (HandledNotification(q) /\ HasRecordFailure(requests[q].body.Message.Records))
      => /\ requests[q].pc = "answered"
         /\ requests[q].responses = <<200>>
         /\ requests[q].tasks
              = ExpectedTasks(requests[q].body.Message.Records, 1)

\* Validation is on and the signature of request q does not check out.
SignatureFails(q) ==
  /\ ~snsOptions.ignoreMessageValidation
  /\ requests[q].body.json
  /\ ~requests[q].body.signed

\* C18: of a request whose signature check fails nothing is processed: no
\* subscription is confirmed and no action of any record is submitted.
C18_NothingProcessedOnBadSignature ==
  \A q \in Requests :
    SignatureFails(q)
      => /\ requests[q].tasks = <<>>
         /\ ~requests[q].confirmed
         /\ requests[q].pc \in {"validating", "rejected", "unhandled"}
         /\ requests[q].responses # <<200>>

\* C18 witness: the validator has rejected a request that confirms a
\* subscription or whose notification has a record due an action, and the
\* queue holds no task.
C18_Witness ==
  \E q \in Requests :
    /\ SignatureFails(q)
    /\ requests[q].error = Some("ValidationError")
    /\ \/ requests[q].body.Type = "SubscriptionConfirmation"
       \/ /\ requests[q].body.Type = "Notification"
          /\ requests[q].body.Message.kind = "json"
          /\ ExpectedTasks(requests[q].body.Message.Records, 1) # <<>>
    /\ items = <<>>

\* C19: a request whose handling has ended has been answered exactly once,
\* with 200 when it was processed and with 500 when its body or its inner
\* message did not parse or its validation failed.
C19_AnsweredOnce ==
  \A q \in Requests :
    /\ Len(requests[q].responses) <= 1
    /\ requests[q].pc \in {"answered", "unhandled"}
         => requests[q].responses
              = <<IF requests[q].body.json /\ requests[q].error = None
                  THEN 200 ELSE 500>>

----------------------------------------------------------------------------
\* The pass of the reconciler, iteration by iteration.

\* The listings a pass works on.  Before any task has started they are
\* those of the pass that has just run.
S3List == getS3List(remote)
DirEntries == getDirectoryEntries(fsFiles, fsDirs, RootDir)

\* The pass has run and no task has touched the tree yet.
PassJustRun == syncState = "done" /\ runs = <<>>

\* In iteration step the local path equals the transformed key of the
\* object.
EqualStep(step, list, entries) ==
  /\ step.j <= Len(entries)
  /\ step.i <= Len(list)
  /\ entries[step.j].relativePath = list[step.i].transformedKey

\* C27: an iteration in which the local path equals the transformed key
\* advances both cursors, submits no removal, and submits the write of the
\* object exactly when the local entry is not a directory and the object is
\* strictly later than the entry or differs from it in size.
C27_EqualEntryWrittenIffOutdated ==
  LET list == S3List
      entries == DirEntries
      steps == SyncSteps(list, entries, 1, 1, RemoveEnabled)
      submitted == SubmittedTasks
  IN \A n \in 1..Len(steps) :
       EqualStep(steps[n], list, entries) =>
         LET step == steps[n]
             entry == entries[step.j]
             obj == list[step.i]
             outdated == /\ entry.relativePath[Len(entry.relativePath)] # Sep
                         /\ \/ obj.LastModified > entry.stats.mtime
                            \/ obj.Size # entry.stats.size
         IN /\ step.ni = step.i + 1
            /\ step.nj = step.j + 1
            /\ step.tasks = IF outdated
                            THEN <<[op |-> "write", rel |-> obj.transformedKey]>>
                            ELSE <<>>
            /\ PassJustRun
                 => \A m \in 1..Len(step.tasks) : step.tasks[m] \in submitted

\* C27 witness: the pass met a file as old as its object and of its size and
\* left it alone, and met an older file of the same size and wrote it.
C27_Witness ==
  LET list == S3List
      entries == DirEntries
      steps == SyncSteps(list, entries, 1, 1, RemoveEnabled)
  IN /\ PassJustRun
     /\ \E n \in 1..Len(steps) :
          /\ EqualStep(steps[n], list, entries)
          /\ entries[steps[n].j].stats = SameAgeFile
          /\ steps[n].tasks = <<>>
     /\ \E n \in 1..Len(steps) :
          /\ EqualStep(steps[n], list, entries)
          /\ entries[steps[n].j].stats = OlderFile
          /\ steps[n].tasks # <<>>
          /\ steps[n].tasks[1] \in SubmittedTasks

\* Iteration step submits the recursive removal of the directory it is at.
RemovesDir(step, entries) ==
  /\ step.tasks # <<>>
  /\ step.tasks[1].op = "rmdir"
  /\ step.tasks[1].rel = entries[step.j].relativePath

\* The current remote key of iteration step lies in directory D.
KeyInDir(step, list, D) ==
  /\ step.i <= Len(list)
  /\ StartsWith(list[step.i].transformedKey, D)

\* C28: an iteration that submits the recursive removal of a local directory
\* D does so with remove set and with no current remote key or one that D
\* does not prefix, and leaves the local cursor at the first later entry
\* that D does not prefix, so that no entry below D gets an action; an
\* iteration at a directory that prefixes the current remote key submits
\* nothing and moves to the next entry.
C28_RemovedDirSkipsDescendants ==
  LET list == S3List
      entries == DirEntries
      steps == SyncSteps(list, entries, 1, 1, RemoveEnabled)
  IN \A n \in 1..Len(steps) :
       LET step == steps[n]
           D == entries[step.j].relativePath
       IN step.j <= Len(entries) =>
            /\ RemovesDir(step, entries) =>
                 /\ remove
                 /\ D[Len(D)] = Sep
                 /\ ~KeyInDir(step, list, D)
                 /\ step.ni = step.i
                 /\ step.nj > step.j
                 /\ \A m \in (step.j + 1)..(step.nj - 1) :
                      StartsWith(entries[m].relativePath, D)
                 /\ step.nj <= Len(entries)
                      => ~StartsWith(entries[step.nj].relativePath, D)
                 /\ \A k \in 1..Len(steps) :
                      steps[k].j \notin (step.j + 1)..(step.nj - 1)
            /\ (D[Len(D)] = Sep /\ KeyInDir(step, list, D)) =>
                 /\ step.tasks = <<>>
                 /\ step.nj = step.j + 1

\* C28 witness: the pass removed a directory, skipped the file below it
\* and resumed at the entry after it; and a pass with remove set went past
\* a directory that holds the current remote key.
C28_Witness ==
  LET list == S3List
      entries == DirEntries
      steps == SyncSteps(list, entries, 1, 1, RemoveEnabled)
  IN /\ PassJustRun
     /\ remove
     /\ \/ \E n \in 1..Len(steps) :
             /\ steps[n].j <= Len(entries)
             /\ RemovesDir(steps[n], entries)
             /\ steps[n].nj > steps[n].j + 1
             /\ steps[n].nj <= Len(entries)
             /\ steps[n].tasks[1] \in SubmittedTasks
             /\ \A t \in SubmittedTasks :
                  t.rel = entries[steps[n].j].relativePath
                    \/ ~StartsWith(t.rel, entries[steps[n].j].relativePath)
        \/ /\ \E n \in 1..Len(steps) :
                /\ steps[n].j <= Len(entries)
                /\ KeyInDir(steps[n], list, entries[steps[n].j].relativePath)
                /\ steps[n].ni = steps[n].i
           /\ \A t \in SubmittedTasks : t.op # "rmdir"

\* C29: the list of getS3List is in strictly increasing byte order of
\* transformedKey.
C29_ListingSortedByTransformedKey ==
  LET list == S3List
  IN \A n \in 1..(Len(list) - 1) :
       compareStringsUtf8BinaryOrder(list[n].transformedKey,
                                     list[n + 1].transformedKey) < 0

\* C26: no task is submitted for a key whose transformed key is empty or
\* "/", be the key one of the listing or one of a notification record.
C26_NoActionForEmptyKey ==
  \A t \in SubmittedTasks : t.rel \notin {<<>>, <<Sep>>}

----------------------------------------------------------------------------
\* The linked list of the queue.

\* The items the queue holds: those reachable from queueHead.
Pending == Reach(items, queueHead, {})

SnsCallsOf(cmd) == {n \in 1..Len(snsCalls) : snsCalls[n].cmd = cmd}

\* The server has bound to its port.
ServerBound == httpServer \in {"listening", "closing", "closed"}

\* C21: at most one full-sync pass is in progress at any time, and the
\* resync timer is armed only while no pass is running: a tick starts no pass
\* during the initial sync or an earlier resync pass, and the next tick is
\* armed only after the current pass has finished.
C21_OnePassAtATime ==
  /\ passesRunning <= 1
  /\ currentlySyncing <=> passesRunning = 1
  /\ syncTimeout = "armed" => passesRunning = 0

\* A resync pass is running after an initial pass.
C21_Witness ==
  /\ passesStarted = MaxPasses
  /\ passesRunning = 1
  /\ syncTimeout = TimeoutWhileSyncing
  /\ ~runOptions.skipInitialSync

\* C22: once the process has been signalled or the StopService has been
\* called, no further full-sync pass starts.
C22_NoPassAfterStop ==
  [][(stopCalls > 0 \/ signalled) => passesStarted' = passesStarted]_vars

\* The queue has no accepted task left, waiting or running.
QueueDrained == size = 0 /\ runCount = 0

\* C23: a process that exits because its shutdown hooks have finished, not
\* because the shutdown timeout has elapsed, has drained its queue.
C23_ExitAfterDrain == exited = "hooks" => QueueDrained

\* C24: Subscribe is issued at most once, only with a topicArn and only once
\* the server has bound, and exactly once from then on; without a topicArn
\* the SNS client is never called, for Subscribe or for Unsubscribe.
C24_SubscribeOnceWhenBound ==
  /\ Cardinality(SnsCallsOf("Subscribe")) <= 1
  /\ SnsCallsOf("Subscribe") # {} => runOptions.topicArn /\ ServerBound
  /\ runOptions.topicArn /\ ServerBound => SnsCallsOf("Subscribe") # {}
  /\ ~runOptions.topicArn => snsCalls = <<>>

\* A subscribed server has been shut down and has closed.
C24_Witness ==
  /\ Cardinality(SnsCallsOf("Subscribe")) = 1
  /\ httpServer = "closed"
  /\ signalled

\* A step that stops the service: a call of the StopService or a signal.
Stopping == stopCalls' > stopCalls \/ (signalled' /\ ~signalled)

\* C25: when Subscribe has been issued and ignoreUnsubscribeOnShutdown is
\* false, a step that stops the service leaves exactly one Unsubscribe
\* issued, and it carries the SubscriptionArn that Subscribe returned.
C25_StopUnsubscribesOnce ==
  [][(/\ Stopping
      /\ SnsCallsOf("Subscribe") # {}
      /\ ~runOptions.ignoreUnsubscribeOnShutdown)
     => (/\ Cardinality(SnsCallsOf("Unsubscribe"))' = 1
         /\ \A n \in SnsCallsOf("Unsubscribe")' :
              snsCalls'[n].arn = Some(Arn))]_vars

\* The runs of the tasks that threw, caught by the queue or not.
Thrown == {r \in 1..Len(runs) : runs[r].task = ThrowingTask}

\* The keys that a running task holds.
HeldKeys == {k \in Keys : runningTasks[k] # NoTask}

\* C31: in a queue that catches errors, a task that has thrown holds no slot
\* (its key is free or held by a later task, and runCount counts the held
\* keys), the exception does not reach the host, the dispatcher stays
\* scheduled, and the item queued next for the same key is started in the
\* same pass; in a queue that does not catch errors the exception reaches the
\* host.
C31_ThrowReleasesSlot ==
  /\ [](catchErrors =>
          /\ \A r \in Thrown : runningTasks[runs[r].key].id # runs[r].id
          /\ runCount = Cardinality(HeldKeys)
          /\ ~fatal
          /\ runScheduled)
  /\ [][catchErrors =>
          \A r \in Thrown' \ Thrown :
            LET n == items[runs'[r].item].next
            IN (n # NoItem /\ items[n].key = runs'[r].key)
               => (r < Len(runs') /\ runs'[r + 1].item = n)]_vars
  /\ [](~catchErrors => (Thrown # {} <=> fatal))

\* C31 witness: the queue has caught the exception of a task and has started
\* the task queued next for the same key, which holds the key.
C31_Witness ==
  /\ catchErrors
  /\ \E r \in Thrown :
       /\ r < Len(runs)
       /\ runs[r + 1].key = runs[r].key
       /\ runs[r + 1].task = AbstractTask
       /\ runningTasks[runs[r].key].id = runs[r + 1].id

\* The position of the first event e in the log (0: none).
LogIndex(log, e) ==
  IF \E i \in 1..Len(log) : log[i] = e
  THEN CHOOSE i \in 1..Len(log) : log[i] = e /\ \A j \in 1..(i - 1) : log[j] # e
  ELSE 0

\* The keys of all pages that pass the suffix filter, in the order listed.
ListedKeys ==
  LET all == PageKeys(libCall.pages, 1)
  IN SelectSeq(all, LAMBDA k : libCall.suffix = None
                                \/ EndsWith(k, libCall.suffix[1]))

\* C32: when getS3List returns, it has sent one request per page, each
\* request for a next page before the page before it was processed, and its
\* list holds exactly one object per distinct transformed key (other than
\* the ignored "" and "/") of the keys of all pages that end with the suffix:
\* the object of the key listed last among those with that transformed key.
C32_ListingComplete ==
  (libCall.fn = "getS3List" /\ libCall.list # None) =>
    LET list == libCall.list[1]
        keys == ListedKeys
        tks  == {applyTransformersToKey(keys[i]) : i \in 1..Len(keys)}
                  \ {<<>>, <<Sep>>}
    IN /\ libCall.sent = Len(libCall.pages)
       /\ \A n \in 1..(Len(libCall.pages) - 1) :
            LET sent == LogIndex(libCall.log, [ev |-> "send", page |-> n + 1])
                done == LogIndex(libCall.log, [ev |-> "process", page |-> n])
            IN sent # 0 /\ (done # 0 => sent < done)
       /\ {list[i].transformedKey : i \in 1..Len(list)} = tks
       /\ Len(list) = Cardinality(tks)
       /\ \A i \in 1..Len(list) :
            \E j \in 1..Len(keys) :
              /\ keys[j] = list[i].Key
              /\ \A m \in (j + 1)..Len(keys) :
                   applyTransformersToKey(keys[m]) # list[i].transformedKey

\* The string starts with "/", with "\" or with a drive prefix matching
\* [A-Za-z]:[/\].
HasRootPrefix(str) ==
  \/ Len(str) >= 1 /\ str[1] \in {Sep, Backslash}
  \/ /\ Len(str) >= 3
     /\ str[1] \in (65..90) \cup (97..122)
     /\ str[2] = Colon
     /\ str[3] \in {Sep, Backslash}

\* C33: the result of removeRootDirCharsFromS3Key starts with no root prefix,
\* and the transformer applied to its result returns the result.
C33_RootPrefixRemoved ==
  libCall.fn = "removeRootDirCharsFromS3Key" =>
    /\ libCall.once # None => ~HasRootPrefix(libCall.once[1])
    /\ libCall.twice # None => libCall.twice = libCall.once

----------------------------------------------------------------------------
\* The actions of one pass.

\* The key equals the path or lies under it.
EqualOrUnder(key, path) ==
  \/ key = path
  \/ StartsWith(key, IF path # <<>> /\ path[Len(path)] = Sep
                     THEN path ELSE path \o <<Sep>>)

\* C34: among the tasks one pass submits, no write has a key that equals or
\* lies under the path of an unlink or of a recursive removal, and no two
\* writes have the same key.
C34_NoConflictingActions ==
  LET queued == {n \in 1..Len(items) : items[n] # DeadItem}
  IN syncState = "done" =>
       \A a, b \in queued :
         items[a].task.op = "write" =>
           /\ items[b].task.op \in {"unlink", "rmdir"}
                => ~EqualOrUnder(items[a].task.rel, items[b].task.rel)
           /\ (items[b].task.op = "write"
                 /\ items[b].task.rel = items[a].task.rel) => a = b

----------------------------------------------------------------------------
\* Writes next to removals.

\* Task u has unlinked its file and removed the directory it was in.
PrunedParent(u) ==
  /\ runs[u].task.op = "unlink"
  /\ runs[u].err = None
  /\ \E n \in 1..Len(runs[u].log) : runs[u].log[n] = "rmdir"

\* The write of task w was rejected because the directory of its target
\* was missing after its mkdir: by writeFile of a temporary file in that
\* directory, or by rename.
FailedForMissingParent(w) ==
  /\ runs[w].task.op = "write"
  /\ runs[w].err = Some("ENOENT")
  /\ LET call == runs[w].log[Len(runs[w].log)]
     IN \/ call = "rename"
        \/ /\ call = "writeFile"
           /\ PathDir(runs[w].tmp) = PathDir(writeFilePath(w))

\* C35: no write is rejected for the missing directory of its target when
\* a removal of a file next to the target has pruned that directory.
C35_WriteSurvivesPruning ==
  \A w, u \in Runs :
    (/\ PrunedParent(u)
     /\ runs[w].task.op = "write"
     /\ PathDir(writeFilePath(w)) = PathDir(writeFilePath(u)))
      => ~FailedForMissingParent(w)

\* C36: when a write is about to write the body to its temporary path, the
\* directory that holds the temporary path exists.
C36_TmpDirectoryExists ==
  \A r \in Runs :
    (runs[r].task.op = "write" /\ runs[r].pc = "writeFile")
      => PathDir(runs[r].tmp) \in fsDirs

----------------------------------------------------------------------------
\* The paths a step changes.

\* The files and directories that the step creates, removes or rewrites.
Touched ==
  {p \in DOMAIN fsFiles \cup DOMAIN fsFiles' :
     \/ p \notin DOMAIN fsFiles
     \/ p \notin DOMAIN fsFiles'
     \/ fsFiles[p] # fsFiles'[p]}
    \cup (fsDirs \ fsDirs') \cup (fsDirs' \ fsDirs)

\* Path p is the directory or lies in it.
Inside(p, dir) == p = dir \/ StartsWith(p, dir \o <<Sep>>)

\* C37: every file or directory that a step of a task creates, removes or
\* rewrites lies inside the mirror root, but for the temporary file of a
\* write when tmpDir is set.
C37_MutationsInsideRoot ==
  [][\A p \in Touched :
       \/ Inside(p, RootDir)
       \/ tmpDir # None /\ \E r \in Runs : runs[r].tmp = p]_vars

----------------------------------------------------------------------------
\* The drain of a stopped queue whose tasks stay silent.

\* C38: after stop(false) without timeout every accepted task is eventually
\* started, the tasks all having a run timeout, whether or not the running
\* ones invoke their completion callback.
C38_DrainDespiteSilentTasks == GracefulStop ~> AllStarted

----------------------------------------------------------------------------
\* Repeated calls of stop().

\* stop(true) has been called.
ImmediateStopCalled ==
  \E n \in 1..Len(libCall.args) : libCall.args[n].immediately

\* The step is a call stop(false, timeout) with a timeout.
StopWithTimeoutCalled ==
  /\ libCall' # libCall
  /\ ~libCall'.args[Len(libCall'.args)].immediately
  /\ libCall'.args[Len(libCall'.args)].timeout # None

\* C39: once stop(true) has been called the shutdown is immediate and no
\* further task is started, be the call the first or a later one; and a
\* call stop(false, timeout), the first or a later one, leaves the shutdown
\* immediate or the timer armed that will make it so.
C39_LaterStopTakesEffect ==
  /\ [](libCall.fn = "stop" /\ ImmediateStopCalled => shutdownImmediately)
  /\ [][(libCall.fn = "stop" /\ ImmediateStopCalled) => Len(runs') = Len(runs)]_vars
  /\ [][(libCall.fn = "stop" /\ StopWithTimeoutCalled)
          => (shutdownImmediately' \/ stopTimer' # None)]_vars

----------------------------------------------------------------------------
\* The ingress of a service that shuts down.

\* C40: when a notification has been answered with 200, the queue has
\* accepted the action due for each of its records.
C40_AcknowledgedMeansAccepted ==
  \A q \in Requests :
    (/\ requests[q].body.Type = "Notification"
     /\ requests[q].body.Message.kind = "json"
     /\ requests[q].responses = <<200>>)
      => LET due == ExpectedTasks(requests[q].body.Message.Records, 1)
         IN \A m \in 1..Len(due) : due[m] \in SubmittedTasks

====
